---------------------------- MODULE Spec2Model ----------------------------
(***************************************************************************)
(* glua-strings: the binding of Go's strings package to gopher-lua.        *)
(*                                                                         *)
(* A string is modelled as the sequence of its code points (valid UTF-8    *)
(* only); offsets returned by the search routines are byte offsets, as in  *)
(* Go, computed from the encoded length of each code point.                *)
(***************************************************************************)
EXTENDS Integers, Sequences, FiniteSets, TLC

(***************************************************************************)
(* Bounds of the model.                                                    *)
(***************************************************************************)
\* longest input string, in code points
MaxLen == 3
\* longest table passed to Join by the script
MaxList == 2

\* the code points input strings are made of: 'a', 'A', ' ', U+00E9
Alphabet == {97, 65, 32, 233}

\* how many arguments beyond a handler's own the script may pass
ExtraArgs == 1

\* how many times the scripts of one execution state call require
MaxRequires == 2

\* the sequences over S of length at most n
RECURSIVE SeqsUpTo(_, _)
SeqsUpTo(S, n) ==
    IF n = 0 THEN {<< >>}
    ELSE LET shorter == SeqsUpTo(S, n - 1)
         IN  shorter \cup {Append(s, c) : s \in {t \in shorter : Len(t) = n - 1}, c \in S}

(***************************************************************************)
(* The runtime's dynamic values (gopher-lua's LValue).                     *)
(***************************************************************************)
LNil == [t |-> "nil", v |-> << >>]
LBool(b) == [t |-> "boolean", v |-> b]
LNumber(n) == [t |-> "number", v |-> n]
LString(s) == [t |-> "string", v |-> s]
\* a table is a reference: v is its place in the heap
LTable(id) == [t |-> "table", v |-> id]
LFunction(f) == [t |-> "function", v |-> f]

(***************************************************************************)
(* UTF-8 and sequence helpers.                                             *)
(***************************************************************************)
RuneLen(r) == IF r < 128 THEN 1 ELSE IF r < 2048 THEN 2 ELSE IF r < 65536 THEN 3 ELSE 4

RECURSIVE ByteLen(_)
ByteLen(s) == IF s = << >> THEN 0 ELSE RuneLen(Head(s)) + ByteLen(Tail(s))

\* s[from:] and s[:to] counted in code points
Drop(s, k) == SubSeq(s, k + 1, Len(s))
Take(s, k) == SubSeq(s, 1, k)

InSet(r, chars) == \E i \in 1..Len(chars) : chars[i] = r

\* number of code points before the first occurrence of substr in s, or -1
RuneIndex(s, substr) ==
    LET hits == {k \in 0..(Len(s) - Len(substr)) : SubSeq(s, k + 1, k + Len(substr)) = substr}
    IN  IF hits = {} THEN -1 ELSE CHOOSE k \in hits : \A j \in hits : k <= j

LastRuneIndex(s, substr) ==
    LET hits == {k \in 0..(Len(s) - Len(substr)) : SubSeq(s, k + 1, k + Len(substr)) = substr}
    IN  IF hits = {} THEN -1 ELSE CHOOSE k \in hits : \A j \in hits : k >= j

\* byte offset of the code point position k (a count of code points), -1 kept
Offset(s, k) == IF k < 0 THEN -1 ELSE ByteLen(Take(s, k))

(***************************************************************************)
(* The host routines (Go's package strings), as the handlers call them.    *)
(***************************************************************************)
RECURSIVE Compare(_, _)
Compare(a, b) ==
    IF a = << >> /\ b = << >> THEN 0
    ELSE IF a = << >> THEN -1
    ELSE IF b = << >> THEN 1
    ELSE IF Head(a) < Head(b) THEN -1
    ELSE IF Head(a) > Head(b) THEN 1
    ELSE Compare(Tail(a), Tail(b))

Index(s, substr) == Offset(s, RuneIndex(s, substr))

LastIndex(s, substr) == Offset(s, LastRuneIndex(s, substr))

Contains(s, substr) == Index(s, substr) >= 0

IndexAny(s, chars) ==
    LET hits == {k \in 1..Len(s) : InSet(s[k], chars)}
    IN  IF hits = {} THEN -1 ELSE Offset(s, (CHOOSE k \in hits : \A j \in hits : k <= j) - 1)

LastIndexAny(s, chars) ==
    LET hits == {k \in 1..Len(s) : InSet(s[k], chars)}
    IN  IF hits = {} THEN -1 ELSE Offset(s, (CHOOSE k \in hits : \A j \in hits : k >= j) - 1)

ContainsAny(s, chars) == IndexAny(s, chars) >= 0

RECURSIVE Count(_, _)
Count(s, substr) ==
    IF substr = << >> THEN Len(s) + 1
    ELSE LET k == RuneIndex(s, substr)
         IN  IF k < 0 THEN 0 ELSE 1 + Count(Drop(s, k + Len(substr)), substr)

HasPrefix(s, prefix) == Len(s) >= Len(prefix) /\ Take(s, Len(prefix)) = prefix

HasSuffix(s, suffix) == Len(s) >= Len(suffix) /\ Drop(s, Len(s) - Len(suffix)) = suffix

TrimPrefix(s, prefix) == IF HasPrefix(s, prefix) THEN Drop(s, Len(prefix)) ELSE s

TrimSuffix(s, suffix) == IF HasSuffix(s, suffix) THEN Take(s, Len(s) - Len(suffix)) ELSE s

\* unicode.ToUpper / unicode.ToLower on ASCII and Latin-1 letters
ToUpperRune(r) ==
    IF r \in 97..122 THEN r - 32
    ELSE IF r \in 224..254 /\ r # 247 THEN r - 32
    ELSE r

ToLowerRune(r) ==
    IF r \in 65..90 THEN r + 32
    ELSE IF r \in 192..222 /\ r # 215 THEN r + 32
    ELSE r

ToUpper(s) == [i \in 1..Len(s) |-> ToUpperRune(s[i])]

ToLower(s) == [i \in 1..Len(s) |-> ToLowerRune(s[i])]

ToTitle(s) == [i \in 1..Len(s) |-> ToUpperRune(s[i])]

EqualFold(s, t) ==
    /\ Len(s) = Len(t)
    /\ \A i \in 1..Len(s) : ToLowerRune(s[i]) = ToLowerRune(t[i])

\* unicode.IsSpace on Latin-1
Spaces == {9, 10, 11, 12, 13, 32, 133, 160}

IsSpace(r) == r \in Spaces

\* number of leading / trailing code points of s that are in the set members
LeadingRun(s, members) ==
    LET stops == {k \in 1..Len(s) : s[k] \notin members}
    IN  IF stops = {} THEN Len(s) ELSE (CHOOSE k \in stops : \A j \in stops : k <= j) - 1

TrailingRun(s, members) ==
    LET stops == {k \in 1..Len(s) : s[k] \notin members}
    IN  IF stops = {} THEN Len(s) ELSE Len(s) - (CHOOSE k \in stops : \A j \in stops : k >= j)

\* the code points of a string
Range(s) == {s[k] : k \in 1..Len(s)}

TrimLeft(s, cutset) ==
    IF s = << >> \/ cutset = << >> THEN s
    ELSE Drop(s, LeadingRun(s, Range(cutset)))

\* a right trim that stops after one code point
TrimRightOnce(s, cutset) ==
    IF s = << >> \/ cutset = << >> THEN s
    ELSE IF InSet(s[Len(s)], cutset) THEN Take(s, Len(s) - 1) ELSE s

TrimRight(s, cutset) ==
    IF s = << >> \/ cutset = << >> THEN s
    ELSE Take(s, Len(s) - TrailingRun(s, Range(cutset)))

\* Go trims the two ends in one routine; the right end is cut first
Trim(s, cutset) ==
    IF s = << >> \/ cutset = << >> THEN s
    ELSE LET right == Take(s, Len(s) - TrailingRun(s, Range(cutset)))
         IN  Drop(right, LeadingRun(right, Range(cutset)))

TrimSpace(s) ==
    LET left == Drop(s, LeadingRun(s, Spaces))
    IN  Take(left, Len(left) - TrailingRun(left, Spaces))

RECURSIVE Repeat(_, _)
Repeat(s, count) == IF count = 0 THEN << >> ELSE s \o Repeat(s, count - 1)

\* explode splits s into one string per code point, at most n of them
explode(s, n) ==
    LET l == Len(s)
        m == IF n < 0 \/ n > l THEN l ELSE n
    IN  [i \in 1..m |-> IF i < m THEN <<s[i]>> ELSE Drop(s, m - 1)]

\* the loop of genSplit: at most k more cuts
RECURSIVE splitLoop(_, _, _, _)
splitLoop(s, sep, sepSave, k) ==
    LET m == RuneIndex(s, sep)
    IN  IF k = 0 \/ m < 0 THEN <<s>>
        ELSE <<Take(s, m + sepSave)>> \o splitLoop(Drop(s, m + Len(sep)), sep, sepSave, k - 1)

\* sepSave: how many code points of sep stay at the end of each piece
genSplit(s, sep, sepSave, n) ==
    IF n = 0 THEN << >>
    ELSE IF sep = << >> THEN explode(s, n)
    ELSE LET n1 == IF n < 0 THEN Count(s, sep) + 1 ELSE n
             n2 == IF n1 > ByteLen(s) + 1 THEN ByteLen(s) + 1 ELSE n1
         IN  splitLoop(s, sep, sepSave, n2 - 1)

Split(s, sep) == genSplit(s, sep, 0, -1)

SplitAfter(s, sep) == genSplit(s, sep, Len(sep), -1)

\* a bounded split that does not look at its bound
SplitNUnbounded(s, sep, n) == genSplit(s, sep, 0, -1)

SplitN(s, sep, n) == genSplit(s, sep, 0, n)

SplitAfterN(s, sep, n) == genSplit(s, sep, Len(sep), n)

RECURSIVE Join(_, _)
Join(elems, sep) ==
    IF elems = << >> THEN << >>
    ELSE IF Len(elems) = 1 THEN elems[1]
    ELSE elems[1] \o sep \o Join(Tail(elems), sep)

\* the replacement loop of Replace: n more occurrences to rewrite, first
\* tells whether this is the first iteration (an empty old matches before
\* the first code point and after every code point)
RECURSIVE replaceLoop(_, _, _, _, _)
replaceLoop(s, old, new, n, first) ==
    IF n = 0 THEN s
    ELSE LET j == IF old = << >> THEN (IF first THEN 0 ELSE 1) ELSE RuneIndex(s, old)
         IN  Take(s, j) \o new \o replaceLoop(Drop(s, j + Len(old)), old, new, n - 1, FALSE)

\* a Replace that takes only -1 to mean every occurrence
ReplaceMinusOne(s, old, new, n) ==
    IF old = new \/ n = 0 \/ n < -1 THEN s
    ELSE LET m == Count(s, old)
         IN  IF m = 0 THEN s
             ELSE replaceLoop(s, old, new, IF n < 0 \/ m < n THEN m ELSE n, TRUE)

Replace(s, old, new, n) ==
    IF old = new \/ n = 0 THEN s
    ELSE LET m == Count(s, old)
         IN  IF m = 0 THEN s
             ELSE replaceLoop(s, old, new, IF n < 0 \/ m < n THEN m ELSE n, TRUE)

RECURSIVE Fields(_)
Fields(s) ==
    LET t == Drop(s, LeadingRun(s, Spaces))
        w == LeadingRun(t, Range(t) \ Spaces)
    IN  IF t = << >> THEN << >> ELSE <<Take(t, w)>> \o Fields(Drop(t, w))


\* utf8.AppendRune: the bytes of one code point
EncodeRune(r) ==
    IF r < 128 THEN <<r>>
    ELSE IF r < 2048 THEN <<192 + (r \div 64), 128 + (r % 64)>>
    ELSE IF r < 65536 THEN <<224 + (r \div 4096), 128 + ((r \div 64) % 64), 128 + (r % 64)>>
    ELSE <<240 + (r \div 262144), 128 + ((r \div 4096) % 64), 128 + ((r \div 64) % 64), 128 + (r % 64)>>

RECURSIVE Bytes(_)
Bytes(s) == IF s = << >> THEN << >> ELSE EncodeRune(Head(s)) \o Bytes(Tail(s))

IndexByte(s, c) ==
    LET b == Bytes(s)
        hits == {k \in 1..Len(b) : b[k] = c}
    IN  IF hits = {} THEN -1 ELSE (CHOOSE k \in hits : \A j \in hits : k <= j) - 1

LastIndexByte(s, c) ==
    LET b == Bytes(s)
        hits == {k \in 1..Len(b) : b[k] = c}
    IN  IF hits = {} THEN -1 ELSE (CHOOSE k \in hits : \A j \in hits : k >= j) - 1

ValidRune(r) == (0 <= r /\ r < 55296) \/ (57343 < r /\ r <= 1114111)

IndexRune(s, r) == IF ValidRune(r) THEN Index(s, <<r>>) ELSE -1

ContainsRune(s, r) == IndexRune(s, r) >= 0

\* strings.isSeparator on ASCII and Latin-1
isSeparator(r) ==
    IF r <= 127 THEN ~(r \in 48..57 \/ r \in 97..122 \/ r \in 65..90 \/ r = 95)
    ELSE IF r \in {170, 181, 186} \/ (r \in 192..255 /\ r \notin {215, 247}) THEN FALSE
    ELSE IsSpace(r)

Title(s) ==
    [i \in 1..Len(s) |->
        IF isSeparator(IF i = 1 THEN 32 ELSE s[i - 1]) THEN ToUpperRune(s[i]) ELSE s[i]]

(***************************************************************************)
(* Conversions of the runtime: number to text, integer to rune and byte.   *)
(***************************************************************************)
RECURSIVE DecimalDigits(_)
DecimalDigits(n) ==
    IF n < 10 THEN <<48 + n>> ELSE DecimalDigits(n \div 10) \o <<48 + (n % 10)>>

\* LNumber.String() of an integral number
NumberToString(n) == IF n < 0 THEN <<45>> \o DecimalDigits(-n) ELSE DecimalDigits(n)

\* Go's rune(n): the low 32 bits, signed; every integer of the model is
\* within 32 bits, where the conversion keeps the value
ToRune(n) == n

\* a conversion that keeps the integer as it is
ToByteWide(n) == n

\* Go's byte(n): the low 8 bits
ToByte(n) == n % 256

\* LValue.String(); a table or a function prints as its kind and an address,
\* of which only the kind is kept
LVString(lv) ==
    CASE lv.t = "string" -> lv.v
      [] lv.t = "number" -> NumberToString(lv.v)
      [] lv.t = "nil" -> <<110, 105, 108>>
      [] lv.t = "boolean" -> IF lv.v THEN <<116, 114, 117, 101>> ELSE <<102, 97, 108, 115, 101>>
      [] lv.t = "table" -> <<116, 97, 98, 108, 101>>
      [] lv.t = "function" -> <<102, 117, 110, 99, 116, 105, 111, 110>>

(***************************************************************************)
(* The argument checks.  stk is the value stack and base the number of     *)
(* slots below the first argument of the running handler.                  *)
(***************************************************************************)
\* L.Get(n): argument n for n > 0 (nil when absent), from the top for n < 0
Get(stk, base, n) ==
    IF n > 0 THEN (IF base + n <= Len(stk) THEN stk[base + n] ELSE LNil)
    ELSE IF Len(stk) + n + 1 > base THEN stk[Len(stk) + n + 1] ELSE LNil

\* a number is accepted where a string is expected, as its text
CheckString(stk, base, n) ==
    LET lv == Get(stk, base, n)
    IN  IF lv.t = "string" THEN [ok |-> TRUE, v |-> lv.v]
        ELSE IF lv.t = "number" THEN [ok |-> TRUE, v |-> NumberToString(lv.v)]
        ELSE [ok |-> FALSE, v |-> << >>]

\* a check that takes anything but a number as 0
CheckIntCoerce(stk, base, n) ==
    LET lv == Get(stk, base, n)
    IN  IF lv.t = "number" THEN [ok |-> TRUE, v |-> lv.v] ELSE [ok |-> TRUE, v |-> 0]

CheckInt(stk, base, n) ==
    LET lv == Get(stk, base, n)
    IN  IF lv.t = "number" THEN [ok |-> TRUE, v |-> lv.v] ELSE [ok |-> FALSE, v |-> 0]

\* a check that takes nil and false as false and any other value as true
CheckBoolTruthy(stk, base, n) ==
    LET lv == Get(stk, base, n)
    IN  [ok |-> TRUE, v |-> (lv # LNil /\ lv # LBool(FALSE))]

CheckBool(stk, base, n) ==
    LET lv == Get(stk, base, n)
    IN  IF lv.t = "boolean" THEN [ok |-> TRUE, v |-> lv.v] ELSE [ok |-> FALSE, v |-> FALSE]

CheckFunction(stk, base, n) ==
    LET lv == Get(stk, base, n)
    IN  IF lv.t = "function" THEN [ok |-> TRUE, v |-> lv] ELSE [ok |-> FALSE, v |-> LNil]

\* tb.RawGetInt(key): the array part holds the keys 1..Len
RawGetInt(tb, key) == IF key \in 1..Len(tb) THEN tb[key] ELSE LNil

\* a reader that takes each item out of the table as it reads it
checkStringListDrain(stk, base, n, hp) ==
    LET lv == Get(stk, base, n)
    IN  IF lv.t = "table"
        THEN [ok |-> TRUE,
              v |-> [k \in 1..Len(hp[lv.v]) |->
                        LET item == RawGetInt(hp[lv.v], k - 1)
                        IN  IF item.t = "string" THEN item.v ELSE LVString(item)],
              heap |-> [hp EXCEPT ![lv.v] = << >>], read |-> {lv.v}]
        ELSE [ok |-> FALSE, v |-> << >>, heap |-> hp, read |-> {}]

\* a reader of the keys 1..Len of the table
checkStringListFromOne(stk, base, n, hp) ==
    LET lv == Get(stk, base, n)
    IN  IF lv.t = "table"
        THEN [ok |-> TRUE,
              v |-> [k \in 1..Len(hp[lv.v]) |->
                        LET item == RawGetInt(hp[lv.v], k)
                        IN  IF item.t = "string" THEN item.v ELSE LVString(item)],
              heap |-> hp, read |-> {lv.v}]
        ELSE [ok |-> FALSE, v |-> << >>, heap |-> hp, read |-> {}]

\* a reader that goes back to the first table it was ever given
checkStringListCached(stk, base, n, hp) ==
    LET lv == Get(stk, base, n)
    IN  IF lv.t = "table"
        THEN [ok |-> TRUE,
              v |-> [k \in 1..Len(hp[1]) |->
                        LET item == RawGetInt(hp[1], k - 1)
                        IN  IF item.t = "string" THEN item.v ELSE LVString(item)],
              heap |-> hp, read |-> {1}]
        ELSE [ok |-> FALSE, v |-> << >>, heap |-> hp, read |-> {}]

\* reads the keys 0..Len-1 of the table; hp is the heap, which it leaves as
\* it is; read is the table it has read
checkStringList(stk, base, n, hp) ==
    LET lv == Get(stk, base, n)
    IN  IF lv.t = "table"
        THEN [ok |-> TRUE,
              v |-> [k \in 1..Len(hp[lv.v]) |->
                        LET item == RawGetInt(hp[lv.v], k - 1)
                        IN  IF item.t = "string" THEN item.v ELSE LVString(item)],
              heap |-> hp, read |-> {lv.v}]
        ELSE [ok |-> FALSE, v |-> << >>, heap |-> hp, read |-> {}]

(***************************************************************************)
(* The results pushed by a handler.                                        *)
(***************************************************************************)
retBool(v) == LBool(v)

\* a handler that reports "not found" as 0
retIntClamped(v) == LNumber(IF v < 0 THEN 0 ELSE v)

retInt(v) == LNumber(v)

retString(v) == LString(v)

\* a new table that leaves the empty strings out
retStringListSkipEmpty(vs, hp) ==
    LET nonEmpty(x) == x # << >>
        kept == SelectSeq(vs, nonEmpty)
    IN  [v |-> LTable(Len(hp) + 1),
         heap |-> Append(hp, [i \in 1..Len(kept) |-> LString(kept[i])])]

\* a handler that keeps one table for its results and appends to it
retStringListShared(vs, hp) ==
    [v |-> LTable(1),
     heap |-> [hp EXCEPT ![1] = @ \o [i \in 1..Len(vs) |-> LString(vs[i])]]]

\* a handler that pushes nil for no strings
retStringListNilEmpty(vs, hp) ==
    IF vs = << >> THEN [v |-> LNil, heap |-> hp]
    ELSE [v |-> LTable(Len(hp) + 1),
          heap |-> Append(hp, [i \in 1..Len(vs) |-> LString(vs[i])])]

\* a new table with the strings appended at the keys 1..Len
retStringList(vs, hp) ==
    [v |-> LTable(Len(hp) + 1),
     heap |-> Append(hp, [i \in 1..Len(vs) |-> LString(vs[i])])]

(***************************************************************************)
(* The script's closures: what each returns, or whether it raises an       *)
(* error, for one code point.                                              *)
(***************************************************************************)
Predicates == {"isA", "isSpace", "always", "never"}

Mappings == {"identity", "upper", "dropA"}

\* the closures that return, without error, a value of the wrong type for
\* the code point 'a'
Mistyped == {"nilAtA", "numAtA", "strAtA", "mapNilAtA", "mapStrAtA"}

Closures == Predicates \cup Mappings \cup Mistyped \cup {"failAtA", "failAfterSpace", "failMapAtA"}

\* the closures that call an operation of the module themselves
Nesting == {"viaContainsRune", "viaIndexFunc", "viaFailing", "viaVia", "dropAVia"}

ScriptCall(f, r) ==
    CASE f = "isA" -> [err |-> FALSE, val |-> LBool(r = 97)]
      [] f = "isSpace" -> [err |-> FALSE, val |-> LBool(r = 32)]
      [] f = "always" -> [err |-> FALSE, val |-> LBool(TRUE)]
      [] f = "never" -> [err |-> FALSE, val |-> LBool(FALSE)]
      [] f = "identity" -> [err |-> FALSE, val |-> LNumber(r)]
      [] f = "upper" -> [err |-> FALSE, val |-> LNumber(ToUpperRune(r))]
      [] f = "dropA" -> [err |-> FALSE, val |-> LNumber(IF r = 97 THEN -1 ELSE r)]
      [] f = "failAtA" -> [err |-> r = 97, val |-> LBool(FALSE)]
      [] f = "failAfterSpace" -> [err |-> r = 97, val |-> LBool(r = 32)]
      [] f = "failMapAtA" -> [err |-> r = 97, val |-> LNumber(r)]
      [] f = "nilAtA" -> [err |-> FALSE, val |-> IF r = 97 THEN LNil ELSE LBool(r = 32)]
      [] f = "numAtA" -> [err |-> FALSE, val |-> IF r = 97 THEN LNumber(1) ELSE LBool(r = 32)]
      [] f = "strAtA" -> [err |-> FALSE, val |-> IF r = 97 THEN LString(<<116, 114, 117, 101>>) ELSE LBool(r = 32)]
      [] f = "mapNilAtA" -> [err |-> FALSE, val |-> IF r = 97 THEN LNil ELSE LNumber(r)]
      [] f = "mapStrAtA" -> [err |-> FALSE, val |-> IF r = 97 THEN LString(<<57, 55>>) ELSE LNumber(r)]
      [] f = "drop" -> [err |-> FALSE, val |-> LNumber(-1)]
      [] f = "raise" -> [err |-> TRUE, val |-> LNil]

(***************************************************************************)
(* The host routines that call back, one callback invocation per step.     *)
(* pos is the position (in code points, from 1) of the code point the      *)
(* routine asks about next, 0 once it has its result res.                  *)
(***************************************************************************)
ScanHosts == {"FieldsFunc", "IndexFunc", "Map", "TrimFunc", "TrimLeftFunc", "TrimRightFunc"}

NoScan == [host |-> "", fn |-> LNil, s |-> << >>, pos |-> 0, phase |-> 0, lo |-> 0, acc |-> << >>, res |-> << >>]

scanStart(host, s, fn) ==
    [host |-> host, fn |-> fn, s |-> s,
     pos |-> IF s = << >> THEN 0 ELSE IF host = "TrimRightFunc" THEN Len(s) ELSE 1,
     phase |-> 1, lo |-> 0, acc |-> << >>,
     res |-> IF host = "IndexFunc" THEN -1 ELSE << >>]

finish(st, res) == [st EXCEPT !.pos = 0, !.res = res]

\* an IndexFunc that counts code points, not bytes
stepIndexFuncRunes(st, ans) ==
    IF ans THEN finish(st, st.pos - 1)
    ELSE IF st.pos = Len(st.s) THEN finish(st, -1)
    ELSE [st EXCEPT !.pos = st.pos + 1]

\* strings.IndexFunc: left to right, stops at the first true
stepIndexFunc(st, ans) ==
    IF ans THEN finish(st, Offset(st.s, st.pos - 1))
    ELSE IF st.pos = Len(st.s) THEN finish(st, -1)
    ELSE [st EXCEPT !.pos = st.pos + 1]

\* strings.TrimLeftFunc: left to right, stops at the first false
stepTrimLeftFunc(st, ans) ==
    IF ~ans THEN finish(st, Drop(st.s, st.pos - 1))
    ELSE IF st.pos = Len(st.s) THEN finish(st, << >>)
    ELSE [st EXCEPT !.pos = st.pos + 1]

\* strings.TrimRightFunc: right to left, stops at the first false
stepTrimRightFunc(st, ans) ==
    IF ~ans THEN finish(st, Take(st.s, st.pos))
    ELSE IF st.pos = 1 THEN finish(st, << >>)
    ELSE [st EXCEPT !.pos = st.pos - 1]

\* strings.TrimFunc is TrimRightFunc(TrimLeftFunc(s, f), f): phase 1 scans
\* from the left, phase 2 scans what is left at lo.. from the right
stepTrimFunc(st, ans) ==
    IF st.phase = 1
    THEN IF ~ans THEN [st EXCEPT !.phase = 2, !.lo = st.pos, !.pos = Len(st.s)]
         ELSE IF st.pos = Len(st.s) THEN finish(st, << >>)
         ELSE [st EXCEPT !.pos = st.pos + 1]
    ELSE IF ~ans THEN finish(st, SubSeq(st.s, st.lo, st.pos))
         ELSE IF st.pos = st.lo THEN finish(st, << >>)
         ELSE [st EXCEPT !.pos = st.pos - 1]

\* strings.FieldsFunc: one pass, lo is the start of the open field (0: none)
stepFieldsFunc(st, ans) ==
    LET acc == IF ans /\ st.lo > 0 THEN Append(st.acc, SubSeq(st.s, st.lo, st.pos - 1)) ELSE st.acc
        lo == IF ans THEN 0 ELSE IF st.lo = 0 THEN st.pos ELSE st.lo
    IN  IF st.pos = Len(st.s)
        THEN finish(st, IF lo > 0 THEN Append(acc, SubSeq(st.s, lo, Len(st.s))) ELSE acc)
        ELSE [st EXCEPT !.acc = acc, !.lo = lo, !.pos = st.pos + 1]

\* a Map that writes U+FFFD for a negative result
stepMapNoDrop(st, r) ==
    LET acc == Append(st.acc, IF ValidRune(r) THEN r ELSE 65533)
    IN  IF st.pos = Len(st.s) THEN finish(st, acc)
        ELSE [st EXCEPT !.acc = acc, !.pos = st.pos + 1]

\* strings.Map: a negative result drops the code point, an invalid one is
\* written as U+FFFD
stepMap(st, r) ==
    LET acc == IF r >= 0 THEN Append(st.acc, IF ValidRune(r) THEN r ELSE 65533) ELSE st.acc
    IN  IF st.pos = Len(st.s) THEN finish(st, acc)
        ELSE [st EXCEPT !.acc = acc, !.pos = st.pos + 1]

scanStep(st, ans) ==
    CASE st.host = "IndexFunc" -> stepIndexFunc(st, ans)
      [] st.host = "TrimLeftFunc" -> stepTrimLeftFunc(st, ans)
      [] st.host = "TrimRightFunc" -> stepTrimRightFunc(st, ans)
      [] st.host = "TrimFunc" -> stepTrimFunc(st, ans)
      [] st.host = "FieldsFunc" -> stepFieldsFunc(st, ans)
      [] st.host = "Map" -> stepMap(st, ans)

(***************************************************************************)
(* The callback trampolines.  Each returns the stack it leaves, the fault  *)
(* it ends with ("" for none) and the value it hands to the host routine.  *)
(***************************************************************************)
Pop(stk, n) == Take(stk, Len(stk) - n)

\* L.CallByParam(P{Protect: true, Fn: lf, NRet: 1}, arg): pushes the function
\* and the argument; the call leaves one result in their place, or, on an
\* error, the stack as it was before the push
CallByParam(stk, lf, arg) ==
    LET pushed == stk \o <<lf, arg>>
        out == ScriptCall(lf.v, arg.v)
    IN  IF out.err THEN [err |-> TRUE, stack |-> Pop(pushed, 2)]
        ELSE [err |-> FALSE, stack |-> Append(Pop(pushed, 2), out.val)]

\* a trampoline that leaves the returned value on the stack
callFunc_Rune_ret_Bool_NoPop(stk, base, lf, arg) ==
    LET called == CallByParam(stk, lf, arg)
        ret == CheckBool(called.stack, base, -1)
    IN  IF called.err THEN [stack |-> called.stack, fault |-> "CallbackFault", ret |-> FALSE]
        ELSE [stack |-> called.stack,
              fault |-> IF ret.ok THEN "" ELSE "CallbackTypeError",
              ret |-> ret.v]

\* a trampoline that answers false when the closure raises an error
callFunc_Rune_ret_Bool_Swallow(stk, base, lf, arg) ==
    LET called == CallByParam(stk, lf, arg)
        ret == CheckBool(called.stack, base, -1)
    IN  IF called.err THEN [stack |-> called.stack, fault |-> "", ret |-> FALSE]
        ELSE [stack |-> Pop(called.stack, 1),
              fault |-> IF ret.ok THEN "" ELSE "CallbackTypeError",
              ret |-> ret.v]

callFunc_Rune_ret_Bool(stk, base, lf, arg) ==
    LET called == CallByParam(stk, lf, arg)
        ret == CheckBool(called.stack, base, -1)
    IN  IF called.err THEN [stack |-> called.stack, fault |-> "CallbackFault", ret |-> FALSE]
        ELSE [stack |-> Pop(called.stack, 1),
              fault |-> IF ret.ok THEN "" ELSE "CallbackTypeError",
              ret |-> ret.v]

\* a trampoline that has the code point dropped when the closure raises an
\* error
callFunc_Rune_ret_Rune_Drop(stk, base, lf, arg) ==
    LET called == CallByParam(stk, lf, arg)
        ret == CheckInt(called.stack, base, -1)
    IN  IF called.err THEN [stack |-> called.stack, fault |-> "", ret |-> -1]
        ELSE [stack |-> Pop(called.stack, 1),
              fault |-> IF ret.ok THEN "" ELSE "CallbackTypeError",
              ret |-> ToRune(ret.v)]

callFunc_Rune_ret_Rune(stk, base, lf, arg) ==
    LET called == CallByParam(stk, lf, arg)
        ret == CheckInt(called.stack, base, -1)
    IN  IF called.err THEN [stack |-> called.stack, fault |-> "CallbackFault", ret |-> 0]
        ELSE [stack |-> Pop(called.stack, 1),
              fault |-> IF ret.ok THEN "" ELSE "CallbackTypeError",
              ret |-> ToRune(ret.v)]

(***************************************************************************)
(* The registry: for each name, the checks the handler makes on its        *)
(* arguments (argument 1 first), the host routine it calls and the kind of *)
(* result it pushes.                                                       *)
(***************************************************************************)
H(args, host, ret) == [args |-> args, host |-> host, ret |-> ret]

SS == <<"string", "string">>

SF == <<"string", "function">>

stringsFuncs ==
    [Compare       |-> H(SS, "Compare", "int"),
     Contains      |-> H(SS, "Contains", "bool"),
     ContainsAny   |-> H(SS, "ContainsAny", "bool"),
     ContainsRune  |-> H(<<"string", "int">>, "ContainsRune", "bool"),
     Count         |-> H(SS, "Count", "int"),
     EqualFold     |-> H(SS, "EqualFold", "bool"),
     Fields        |-> H(<<"string">>, "Fields", "list"),
     FieldsFunc    |-> H(SF, "FieldsFunc", "list"),
     HasPrefix     |-> H(SS, "HasPrefix", "bool"),
     HasSuffix     |-> H(SS, "HasSuffix", "bool"),
     Index         |-> H(SS, "Index", "int"),
     IndexAny      |-> H(SS, "IndexAny", "int"),
     IndexByte     |-> H(<<"string", "int">>, "IndexByte", "int"),
     IndexFunc     |-> H(SF, "IndexFunc", "int"),
     IndexRune     |-> H(<<"string", "int">>, "IndexRune", "int"),
     Join          |-> H(<<"list", "string">>, "Join", "string"),
     LastIndex     |-> H(SS, "LastIndex", "int"),
     LastIndexAny  |-> H(SS, "LastIndexAny", "int"),
     LastIndexByte |-> H(<<"string", "int">>, "LastIndexByte", "int"),
     LastIndexFunc |-> H(SF, "IndexFunc", "int"),
     Map           |-> H(<<"function", "string">>, "Map", "string"),
     Repeat        |-> H(<<"string", "int">>, "Repeat", "string"),
     Replace       |-> H(<<"string", "string", "string", "int">>, "Replace", "string"),
     Split         |-> H(SS, "Split", "list"),
     SplitAfter    |-> H(SS, "SplitAfter", "list"),
     SplitAfterN   |-> H(<<"string", "string", "int">>, "SplitAfterN", "list"),
     SplitN        |-> H(<<"string", "string", "int">>, "SplitN", "list"),
     Title         |-> H(<<"string">>, "Title", "string"),
     ToLower       |-> H(<<"string">>, "ToLower", "string"),
     ToTitle       |-> H(<<"string">>, "ToTitle", "string"),
     ToUpper       |-> H(<<"string">>, "ToUpper", "string"),
     Trim          |-> H(SS, "Trim", "string"),
     TrimFunc      |-> H(SF, "TrimFunc", "string"),
     TrimLeft      |-> H(SS, "TrimLeft", "string"),
     TrimLeftFunc  |-> H(SF, "TrimLeftFunc", "string"),
     TrimPrefix    |-> H(SS, "TrimPrefix", "string"),
     TrimRight     |-> H(SS, "TrimRight", "string"),
     TrimRightFunc |-> H(SF, "TrimRightFunc", "string"),
     TrimSpace     |-> H(<<"string">>, "TrimSpace", "string"),
     TrimSuffix    |-> H(SS, "TrimSuffix", "string")]

Names == DOMAIN stringsFuncs

NamesOf(kinds) == {n \in Names : stringsFuncs[n].args = kinds}

\* the operations that take a callback
ScanOps == NamesOf(SF) \cup {"Map"}

\* one argument check of a handler
check(kind, stk, base, n, hp) ==
    CASE kind = "string" -> CheckString(stk, base, n)
      [] kind = "int" -> CheckInt(stk, base, n)
      [] kind = "function" -> CheckFunction(stk, base, n)
      [] kind = "list" -> checkStringList(stk, base, n, hp)

\* the heap after the checks: only the check of a list is given the heap
heapAfter(stk, base, kinds, hp) ==
    LET lists == {n \in 1..Len(kinds) : kinds[n] = "list"}
    IN  IF lists = {} THEN hp ELSE checkStringList(stk, base, CHOOSE n \in lists : TRUE, hp).heap

\* the tables the checks read: the table of a list, when its check is reached
readsAfter(stk, base, kinds, hp, bad) ==
    LET lists == {n \in 1..Len(kinds) : kinds[n] = "list" /\ (bad = 0 \/ n <= bad)}
    IN  IF lists = {} THEN {} ELSE checkStringList(stk, base, CHOOSE n \in lists : TRUE, hp).read

\* checks that also refuse a call with more arguments than the handler reads
checkArgsStrict(stk, base, kinds, hp) ==
    LET failed == {n \in 1..Len(kinds) : ~check(kinds[n], stk, base, n, hp).ok}
                    \cup (IF Len(stk) - base > Len(kinds) THEN {Len(kinds) + 1} ELSE {})
    IN  [bad |-> IF failed = {} THEN 0 ELSE CHOOSE n \in failed : \A m \in failed : n <= m,
         v |-> [n \in 1..Len(kinds) |-> check(kinds[n], stk, base, n, hp).v],
         heap |-> heapAfter(stk, base, kinds, hp),
         reads |-> readsAfter(stk, base, kinds, hp,
                              IF failed = {} THEN 0 ELSE CHOOSE n \in failed : \A m \in failed : n <= m)]

\* the checks of a handler, in its order: bad is the first argument that
\* fails its check (0: none), v the converted arguments
checkArgs(stk, base, kinds, hp) ==
    LET failed == {n \in 1..Len(kinds) : ~check(kinds[n], stk, base, n, hp).ok}
    IN  [bad |-> IF failed = {} THEN 0 ELSE CHOOSE n \in failed : \A m \in failed : n <= m,
         v |-> [n \in 1..Len(kinds) |-> check(kinds[n], stk, base, n, hp).v],
         heap |-> heapAfter(stk, base, kinds, hp),
         reads |-> readsAfter(stk, base, kinds, hp,
                              IF failed = {} THEN 0 ELSE CHOOSE n \in failed : \A m \in failed : n <= m)]

\* a Repeat that takes a negative count as 0
RepeatClamped(s, count) == [panic |-> FALSE, v |-> IF count < 0 THEN << >> ELSE Repeat(s, count)]

\* strings.Repeat as the handler calls it, with the count as it was passed:
\* the routine panics on a negative count
RepeatOrPanic(s, count) ==
    IF count < 0 THEN [panic |-> TRUE, v |-> << >>] ELSE [panic |-> FALSE, v |-> Repeat(s, count)]

\* the call of the host routine in a handler that takes no callback, with
\* the handler's conversions byte(t) and rune(t); Repeat panics on a
\* negative count
hostCall(host, a) ==
    CASE host = "Compare" -> [panic |-> FALSE, v |-> Compare(a[1], a[2])]
      [] host = "Contains" -> [panic |-> FALSE, v |-> Contains(a[1], a[2])]
      [] host = "ContainsAny" -> [panic |-> FALSE, v |-> ContainsAny(a[1], a[2])]
      [] host = "ContainsRune" -> [panic |-> FALSE, v |-> ContainsRune(a[1], ToRune(a[2]))]
      [] host = "Count" -> [panic |-> FALSE, v |-> Count(a[1], a[2])]
      [] host = "EqualFold" -> [panic |-> FALSE, v |-> EqualFold(a[1], a[2])]
      [] host = "Fields" -> [panic |-> FALSE, v |-> Fields(a[1])]
      [] host = "HasPrefix" -> [panic |-> FALSE, v |-> HasPrefix(a[1], a[2])]
      [] host = "HasSuffix" -> [panic |-> FALSE, v |-> HasSuffix(a[1], a[2])]
      [] host = "Index" -> [panic |-> FALSE, v |-> Index(a[1], a[2])]
      [] host = "IndexAny" -> [panic |-> FALSE, v |-> IndexAny(a[1], a[2])]
      [] host = "IndexByte" -> [panic |-> FALSE, v |-> IndexByte(a[1], ToByte(a[2]))]
      [] host = "IndexRune" -> [panic |-> FALSE, v |-> IndexRune(a[1], ToRune(a[2]))]
      [] host = "Join" -> [panic |-> FALSE, v |-> Join(a[1], a[2])]
      [] host = "LastIndex" -> [panic |-> FALSE, v |-> LastIndex(a[1], a[2])]
      [] host = "LastIndexAny" -> [panic |-> FALSE, v |-> LastIndexAny(a[1], a[2])]
      [] host = "LastIndexByte" -> [panic |-> FALSE, v |-> LastIndexByte(a[1], ToByte(a[2]))]
      [] host = "Repeat" -> RepeatOrPanic(a[1], a[2])
      [] host = "Replace" -> [panic |-> FALSE, v |-> Replace(a[1], a[2], a[3], a[4])]
      [] host = "Split" -> [panic |-> FALSE, v |-> Split(a[1], a[2])]
      [] host = "SplitAfter" -> [panic |-> FALSE, v |-> SplitAfter(a[1], a[2])]
      [] host = "SplitAfterN" -> [panic |-> FALSE, v |-> SplitAfterN(a[1], a[2], a[3])]
      [] host = "SplitN" -> [panic |-> FALSE, v |-> SplitN(a[1], a[2], a[3])]
      [] host = "Title" -> [panic |-> FALSE, v |-> Title(a[1])]
      [] host = "ToLower" -> [panic |-> FALSE, v |-> ToLower(a[1])]
      [] host = "ToTitle" -> [panic |-> FALSE, v |-> ToTitle(a[1])]
      [] host = "ToUpper" -> [panic |-> FALSE, v |-> ToUpper(a[1])]
      [] host = "Trim" -> [panic |-> FALSE, v |-> Trim(a[1], a[2])]
      [] host = "TrimLeft" -> [panic |-> FALSE, v |-> TrimLeft(a[1], a[2])]
      [] host = "TrimPrefix" -> [panic |-> FALSE, v |-> TrimPrefix(a[1], a[2])]
      [] host = "TrimRight" -> [panic |-> FALSE, v |-> TrimRight(a[1], a[2])]
      [] host = "TrimSpace" -> [panic |-> FALSE, v |-> TrimSpace(a[1])]
      [] host = "TrimSuffix" -> [panic |-> FALSE, v |-> TrimSuffix(a[1], a[2])]

\* a TrimRightFunc handler that calls strings.TrimLeftFunc
hostScanWrong(host, a) ==
    IF host = "Map" THEN scanStart(host, a[2], a[1])
    ELSE IF host = "TrimRightFunc" THEN scanStart("TrimLeftFunc", a[1], a[2])
    ELSE scanStart(host, a[1], a[2])

\* the start of the host routine in a handler that takes a callback: Map
\* takes the function first, the others the string first
hostScan(host, a) ==
    IF host = "Map" THEN scanStart(host, a[2], a[1]) ELSE scanStart(host, a[1], a[2])

\* the value a handler pushes, the heap once it is built, and the number
\* of results the handler reports: each ret* function returns 1
ret(kind, v, hp) ==
    CASE kind = "bool" -> [v |-> retBool(v), heap |-> hp, n |-> 1]
      [] kind = "int" -> [v |-> retInt(v), heap |-> hp, n |-> 1]
      [] kind = "string" -> [v |-> retString(v), heap |-> hp, n |-> 1]
      [] kind = "list" -> [v |-> retStringList(v, hp).v, heap |-> retStringList(v, hp).heap, n |-> 1]

\* the handler has returned with the stack stk: the runtime puts the n
\* values on top in place of the function and the arguments
Return(stk, base, n) == Take(stk, base) \o Drop(stk, Len(stk) - n)

(***************************************************************************)
(* The state: one execution state running a script that calls the module.  *)
(***************************************************************************)
VARIABLES
    stack,      \* the value stack of the execution state
    pc,         \* "idle": the script is between calls; "host": a host routine
                \* is scanning; "panic": a fault is unwinding; "ret", "err":
                \* the call has returned, has failed
    call,       \* the operation call in progress: name, arguments, stack depth before it,
                \* and the tables its handler has read
    scan,       \* the host routine's scan, while pc = "host"
    trace,      \* the callback invocations of this call: position and code point
    hostCalls,  \* how many times this call entered a host routine
    fault,      \* the fault of this call: its kind and the argument it names
    raised,     \* whether a callback of this call raised an error
    held,       \* the result the script kept from its previous call, if any
    heap,       \* the tables of the execution state: heap[id] is the array part of table id
    states,     \* for each execution state of the process, where the module is in its loading
    registry,   \* the process-wide map stringsFuncs: the handler each name is bound to
    caught,     \* the errors the script's protected calls were handed: those of the call
                \* in progress, and the faults of the calls that have failed since the
                \* script kept a result
    cur,        \* the execution state whose script is running
    memo,       \* a call made earlier and its outcome, as the host program noted them
    frames      \* the calls that wait for a callback of theirs to return, the outermost first

vars == <<stack, pc, call, scan, trace, hostCalls, fault, raised, held, heap, states, registry, caught,
          cur, memo, frames>>

NoCall == [op |-> "", args |-> << >>, base |-> 0, reads |-> {}]

NoFault == [kind |-> "", arg |-> 0]

NoHeld == [set |-> FALSE, from |-> NoCall]

NoCaught == [now |-> << >>, failed |-> << >>]

NoMemo == [set |-> FALSE, state |-> 0, op |-> "", args |-> << >>, out |-> LNil]

\* the value of the module table's field name: the handler, a function
GFunction(name) == LFunction(name)

(***************************************************************************)
(* Loading.  package.preload and package.loaded of an execution state, and *)
(* the require calls of its scripts.                                       *)
(***************************************************************************)
\* the execution states of the process
States == {1, 2}

\* a module table with no field set
EmptyModule == [n \in Names |-> LNil]

\* lua.NewState(): nothing registered, nothing loaded, no require answered
NewState ==
    [preload |-> FALSE, loaded |-> FALSE, module |-> EmptyModule,
     loaderRuns |-> 0, requires |-> 0, last |-> "none"]

\* a Preload that builds the module table at once
PreloadEager(st) ==
    [st EXCEPT !.preload = TRUE, !.loaded = TRUE,
               !.module = [n \in Names |-> GFunction(n)],
               !.loaderRuns = @ + 1]

\* L.PreloadModule("strings", Loader): the loader is put in package.preload
Preload(st) == [st EXCEPT !.preload = TRUE]

\* a Loader that takes the entries out of the map as it copies them
LoaderDrain(reg) ==
    [mod |-> [n \in Names |-> IF reg[n] = "" THEN LNil ELSE GFunction(reg[n])],
     reg |-> [n \in Names |-> ""]]

\* Loader: a new table, with a field for each entry of the map; the map is
\* read only
Loader(reg) ==
    [mod |-> [n \in Names |-> IF reg[n] = "" THEN LNil ELSE GFunction(reg[n])],
     reg |-> reg]

\* the state that has run Preload and whose script has required the module
Loaded ==
    [preload |-> TRUE, loaded |-> TRUE, module |-> Loader([n \in Names |-> n]).mod,
     loaderRuns |-> 1, requires |-> 1, last |-> "module"]

\* the tables among the values
TablesIn(values) == {values[i].v : i \in {j \in 1..Len(values) : values[j].t = "table"}}

\* a value as the script sees into it: a table is the values at its keys
Content(lv, hp) == IF lv.t = "table" THEN [t |-> "table", v |-> hp[lv.v]] ELSE lv

\* the one table the script holds from the start
ScriptHeap == << <<LString(<<97>>)>> >>

Init ==
    /\ stack = << >>
    /\ pc = "idle"
    /\ call = NoCall
    /\ scan = NoScan
    /\ trace = << >>
    /\ hostCalls = 0
    /\ fault = NoFault
    /\ raised = FALSE
    /\ held = NoHeld
    /\ heap = ScriptHeap
    /\ states = [l \in States |-> Loaded]
    /\ registry = [n \in Names |-> n]
    /\ caught = NoCaught
    /\ cur = 1
    /\ memo = NoMemo
    /\ frames = << >>

(***************************************************************************)
(* The script calls strings.<name>(args): the function and the arguments   *)
(* are pushed and the handler runs, up to its first callback invocation    *)
(* if it makes one.  A handler that returns leaves its one result in place *)
(* of the function and the arguments.                                      *)
(***************************************************************************)
Invoke(below, name, args) ==
    LET base == Len(below)
        stk == Append(below, GFunction(name)) \o args
        h == stringsFuncs[name]
        chk == checkArgs(stk, base + 1, h.args, heap)
    IN  /\ call' = [op |-> name, args |-> args, base |-> base, reads |-> chk.reads]
        /\ trace' = << >>
        /\ raised' = FALSE
        /\ caught' = [caught EXCEPT !.now = << >>]
        /\ UNCHANGED <<held, states, registry, cur, memo>>
        /\ IF chk.bad > 0
           THEN /\ pc' = "panic"
                /\ fault' = [kind |-> "ArgumentTypeError", arg |-> chk.bad]
                /\ stack' = stk
                /\ hostCalls' = 0
                /\ scan' = NoScan
                /\ heap' = chk.heap
           ELSE IF h.host \in ScanHosts
           THEN /\ pc' = "host"
                /\ fault' = NoFault
                /\ stack' = stk
                /\ hostCalls' = 1
                /\ scan' = hostScan(h.host, chk.v)
                /\ heap' = chk.heap
           ELSE LET r == hostCall(h.host, chk.v)
                IN  /\ hostCalls' = 1
                    /\ scan' = NoScan
                    /\ IF r.panic
                       THEN /\ pc' = "panic"
                            /\ fault' = [kind |-> "HostPanic", arg |-> 0]
                            /\ stack' = stk
                            /\ heap' = chk.heap
                       ELSE LET pushed == ret(h.ret, r.v, chk.heap)
                            IN  /\ pc' = "ret"
                                /\ fault' = NoFault
                                /\ stack' = Return(Append(stk, pushed.v), base, pushed.n)
                                /\ heap' = pushed.heap

\* a call made by the script itself: no call waits for it
CallOp(name, args) ==
    /\ pc = "idle"
    /\ frames = << >>
    /\ Invoke(stack, name, args)
    /\ UNCHANGED frames

(***************************************************************************)
(* The host routine asks about one code point: the closure the handler     *)
(* gave it runs the trampoline.  A fault of the trampoline is a Go panic   *)
(* that leaves the host routine.                                           *)
(***************************************************************************)
Callback ==
    /\ pc = "host"
    /\ scan.pos > 0
    /\ scan.fn.v \notin Nesting
    /\ LET r == scan.s[scan.pos]
           t == IF scan.host = "Map"
                THEN callFunc_Rune_ret_Rune(stack, call.base + 1, scan.fn, LNumber(r))
                ELSE callFunc_Rune_ret_Bool(stack, call.base + 1, scan.fn, LNumber(r))
       IN  /\ trace' = Append(trace, [pos |-> scan.pos, r |-> r])
           /\ raised' = (raised \/ ScriptCall(scan.fn.v, r).err)
           /\ stack' = t.stack
           /\ IF t.fault # ""
              THEN /\ pc' = "panic"
                   /\ fault' = [kind |-> t.fault, arg |-> 0]
                   /\ scan' = NoScan
              ELSE /\ pc' = "host"
                   /\ fault' = fault
                   /\ scan' = scanStep(scan, t.ret)
    /\ UNCHANGED <<call, hostCalls, held, heap, states, registry, caught, cur, memo, frames>>

\* the host routine returns and the handler pushes its result
HostReturn ==
    /\ pc = "host"
    /\ scan.pos = 0
    /\ pc' = "ret"
    /\ LET pushed == ret(stringsFuncs[call.op].ret, scan.res, heap)
       IN  /\ stack' = Return(Append(stack, pushed.v), call.base, pushed.n)
           /\ heap' = pushed.heap
    /\ scan' = NoScan
    /\ UNCHANGED <<call, trace, hostCalls, fault, raised, held, states, registry, caught, cur, memo, frames>>

\* a protected call that leaves the function and the arguments of the failed
\* call on the stack
PCallLeak(stk, base, f) == [stack |-> stk, errors |-> <<f>>]

\* what the protected call does with the fault f of a call entered at the
\* depth base: it puts the stack back to that depth and hands f, once, to
\* its caller
PCall(stk, base, f) == [stack |-> Take(stk, base), errors |-> <<f>>]

\* the fault reaches the protected call around the operation call: the one
\* that runs the script (L.DoFile), or one the script makes
Unwind ==
    /\ pc = "panic"
    /\ frames = << >>
    /\ pc' = "err"
    /\ stack' = PCall(stack, call.base, fault).stack
    /\ caught' = [caught EXCEPT !.now = @ \o PCall(stack, call.base, fault).errors]
    /\ UNCHANGED <<call, scan, trace, hostCalls, fault, raised, held, heap, states, registry, cur, memo, frames>>

(***************************************************************************)
(* The script.  It drops the outcome of a call, or keeps the result of a   *)
(* call f(x, y) and passes it on in g(result, y).                          *)
(***************************************************************************)
chained == [Split |-> "Join", TrimRight |-> "TrimLeft", TrimRightFunc |-> "TrimLeftFunc"]

Discard ==
    /\ pc \in {"ret", "err"}
    /\ frames = << >>
    /\ pc' = "idle"
    /\ stack' = << >>
    /\ call' = NoCall
    /\ trace' = << >>
    /\ hostCalls' = 0
    /\ fault' = NoFault
    /\ raised' = FALSE
    /\ held' = NoHeld
    /\ heap' = Take(heap, Len(ScriptHeap))
    /\ caught' = NoCaught
    /\ UNCHANGED <<scan, states, registry, cur, memo, frames>>

Keep ==
    /\ pc = "ret"
    /\ frames = << >>
    /\ ~held.set
    /\ call.op \in DOMAIN chained
    /\ pc' = "idle"
    /\ held' = [set |-> TRUE, from |-> call]
    /\ call' = NoCall
    /\ trace' = << >>
    /\ hostCalls' = 0
    /\ UNCHANGED <<stack, scan, fault, raised, heap, states, registry, caught, cur, memo, frames>>

CallChained ==
    /\ pc = "idle"
    /\ held.set
    /\ CallOp(chained[held.from.op], <<stack[Len(stack)], held.from.args[2]>>)

(***************************************************************************)
(* The calls the script makes.                                             *)
(***************************************************************************)
\* one value of each kind
Junk == {LNil, LNumber(2), LString(<<97>>), LTable(1), LFunction("always")}

ScanText == SeqsUpTo({97, 32, 233}, MaxLen)

Text == SeqsUpTo(Alphabet, MaxLen)

Cutsets == {<< >>, <<97>>, <<32>>, <<233>>, <<97, 32>>, <<32, 233>>, <<65, 97>>}

\* between calls, holding nothing but the table it started with
Idle == pc = "idle" /\ ~held.set /\ Len(heap) = Len(ScriptHeap)

\* every operation with every mix of kinds, too few and too many arguments
CallJunk ==
    /\ Idle
    /\ \E name \in Names :
         \E a \in SeqsUpTo(Junk, Len(stringsFuncs[name].args) + ExtraArgs) : CallOp(name, a)

\* the operations that take a callback, with every closure
CallScan ==
    /\ Idle
    /\ \E name \in ScanOps, s \in ScanText, f \in Closures :
         CallOp(name, IF name = "Map" THEN <<LFunction(f), LString(s)>> ELSE <<LString(s), LFunction(f)>>)

CallTrim ==
    /\ Idle
    /\ \E name \in {"Trim", "TrimLeft", "TrimRight"}, s \in Text, c \in Cutsets :
         CallOp(name, <<LString(s), LString(c)>>)

Next ==
    \/ CallJunk
    \/ CallScan
    \/ CallTrim
    \/ CallChained
    \/ Callback
    \/ HostReturn
    \/ Unwind
    \/ Discard
    \/ Keep

Spec == Init /\ [][Next]_vars

(***************************************************************************)
(* The well-typed calls of the operations that take no callback, over      *)
(* every text of the bound.                                                *)
(***************************************************************************)
Patterns == {<< >>, <<97>>, <<32>>, <<233>>, <<65>>, <<97, 97>>, <<97, 32>>, <<32, 233>>}

Counts == {-2, -1, 0, 1, 2}

Runes == {97, 233, 32, -1, 353}

\* integers in and out of the range of a byte; 195 and 169 are the two bytes
\* of the code point 233
ByteArgs == {0, 97, 169, 195, 255, 256, 353, 451, -1, -87, -159}

Replacements == {<< >>, <<233>>, <<97, 97>>}

Lists == SeqsUpTo({LString(<< >>), LString(<<97>>), LString(<<32, 233>>), LNumber(2), LBool(TRUE)}, MaxList)

CallS ==
    /\ Idle
    /\ \E name \in NamesOf(<<"string">>), s \in Text : CallOp(name, <<LString(s)>>)

CallSS ==
    /\ Idle
    /\ \E name \in NamesOf(SS), s \in Text, p \in Patterns : CallOp(name, <<LString(s), LString(p)>>)

CallSI ==
    /\ Idle
    /\ \E name \in NamesOf(<<"string", "int">>), s \in Text :
         \E n \in IF name = "Repeat" THEN Counts
                   ELSE IF name \in {"IndexByte", "LastIndexByte"} THEN ByteArgs
                   ELSE Runes :
            CallOp(name, <<LString(s), LNumber(n)>>)

CallSSI ==
    /\ Idle
    /\ \E name \in NamesOf(<<"string", "string", "int">>), s \in Text, p \in Patterns, n \in Counts :
         CallOp(name, <<LString(s), LString(p), LNumber(n)>>)

CallReplace ==
    /\ Idle
    /\ \E s \in Text, p \in Patterns, q \in Replacements, n \in Counts :
         CallOp("Replace", <<LString(s), LString(p), LString(q), LNumber(n)>>)

\* the script builds a table by appending
NewTable ==
    /\ Idle
    /\ \E l \in Lists : heap' = Append(heap, l)
    /\ UNCHANGED <<stack, pc, call, scan, trace, hostCalls, fault, raised, held, states, registry, caught, cur, memo, frames>>

\* and passes it to Join
CallJoin ==
    /\ pc = "idle"
    /\ ~held.set
    /\ Len(heap) > Len(ScriptHeap)
    /\ \E p \in Patterns : CallOp("Join", <<LTable(Len(heap)), LString(p)>>)

NextText ==
    \/ CallS
    \/ CallSS
    \/ CallSI
    \/ CallSSI
    \/ CallReplace
    \/ NewTable
    \/ CallJoin
    \/ CallChained
    \/ Unwind
    \/ Discard
    \/ Keep

SpecText == Init /\ [][NextText]_vars

(***************************************************************************)
(* Every call of the two specifications above in one, and a script that    *)
(* repeats a Split while it still holds the table of the first.            *)
(***************************************************************************)
CallAgain ==
    /\ pc = "idle"
    /\ held.set
    /\ held.from.op = "Split"
    /\ CallOp("Split", held.from.args)

NextAll ==
    \/ CallJunk
    \/ CallScan
    \/ CallTrim
    \/ CallS
    \/ CallSS
    \/ CallSI
    \/ CallSSI
    \/ CallReplace
    \/ NewTable
    \/ CallJoin
    \/ CallChained
    \/ CallAgain
    \/ Callback
    \/ HostReturn
    \/ Unwind
    \/ Discard
    \/ Keep

SpecAll == Init /\ [][NextAll]_vars

(***************************************************************************)
(* The host program and the scripts of two execution states, from          *)
(* lua.NewState() on: Preload, require, writes to the module table the     *)
(* script was given, and calls through its fields.                         *)
(***************************************************************************)
InitLoad ==
    /\ stack = << >>
    /\ pc = "idle"
    /\ call = NoCall
    /\ scan = NoScan
    /\ trace = << >>
    /\ hostCalls = 0
    /\ fault = NoFault
    /\ raised = FALSE
    /\ held = NoHeld
    /\ heap = ScriptHeap
    /\ states = [l \in States |-> NewState]
    /\ registry = [n \in Names |-> n]
    /\ caught = NoCaught
    /\ cur = 1
    /\ memo = NoMemo
    /\ frames = << >>

\* the host program calls Preload on an execution state
CallPreload ==
    /\ pc = "idle"
    /\ \E l \in States : states' = [states EXCEPT ![l] = Preload(states[l])]
    /\ UNCHANGED <<stack, pc, call, scan, trace, hostCalls, fault, raised, held, heap, registry, caught, cur, memo, frames>>

\* a script calls require("strings"): package.loaded answers if it holds the
\* module; if not the loader in package.preload is run and its result kept
\* in package.loaded; with no loader the require fails
Require ==
    /\ pc = "idle"
    /\ \E l \in States :
         LET st == states[l]
             ld == Loader(registry)
         IN  /\ st.requires < MaxRequires
             /\ IF st.loaded
                THEN /\ states' = [states EXCEPT ![l].requires = @ + 1, ![l].last = "module"]
                     /\ UNCHANGED registry
                ELSE IF st.preload
                THEN /\ states' = [states EXCEPT ![l].requires = @ + 1, ![l].last = "module",
                                                 ![l].loaded = TRUE, ![l].module = ld.mod,
                                                 ![l].loaderRuns = @ + 1]
                     /\ registry' = ld.reg
                ELSE /\ states' = [states EXCEPT ![l].requires = @ + 1, ![l].last = "error"]
                     /\ UNCHANGED registry
    /\ UNCHANGED <<stack, pc, call, scan, trace, hostCalls, fault, raised, held, heap, caught, cur, memo, frames>>

\* the fields the scripts write to and call through
ModuleFields == {"ToUpper", "Repeat"}

\* a script assigns to a field of the module table it was given
ScriptAssign ==
    /\ pc = "idle"
    /\ \E l \in States, field \in ModuleFields, val \in {LNil, GFunction("ToLower")} :
         /\ states[l].loaded
         /\ states' = [states EXCEPT ![l].module[field] = val]
    /\ UNCHANGED <<stack, pc, call, scan, trace, hostCalls, fault, raised, held, heap, registry, caught, cur, memo, frames>>

ViaArgs == {<< >>, <<LString(<<97>>)>>, <<LString(<<97>>), LNumber(-1)>>, <<LString(<<97>>), LNumber(2)>>}

\* a script calls the function a field of its module table holds
CallVia ==
    /\ Idle
    /\ \E l \in States, field \in ModuleFields, a \in ViaArgs :
         /\ states[l].loaded
         /\ states[l].module[field].t = "function"
         /\ CallOp(states[l].module[field].v, a)

NextLoad ==
    \/ CallPreload
    \/ Require
    \/ ScriptAssign
    \/ CallVia
    \/ Unwind
    \/ Discard

SpecLoad == InitLoad /\ [][NextLoad]_vars

(***************************************************************************)
(* A script that keeps the result of a call and goes on making calls under *)
(* its protected-call construct: each of them returns or fails, the script *)
(* drops the outcome and goes on, and in the end passes on what it kept.   *)
(***************************************************************************)
\* how many failed calls the script goes on after
MaxFailed == 2

FirstTexts == SeqsUpTo({97, 32}, MaxLen - 1)

\* the call whose result the script keeps
CallFirst ==
    /\ Idle
    /\ \E s \in FirstTexts :
         \/ \E name \in {"Split", "TrimRight"}, p \in {<<32>>, <<97>>} :
                CallOp(name, <<LString(s), LString(p)>>)
         \/ CallOp("TrimRightFunc", <<LString(s), LFunction("isSpace")>>)

\* the calls the script makes under its protected call: ones that fail on
\* an argument, in a callback and in the host routine, and ones that return
Guarded ==
    {[op |-> "ToUpper", args |-> <<LNil>>],
     [op |-> "ToUpper", args |-> <<LString(<<97>>)>>],
     [op |-> "Join", args |-> <<LNumber(2), LString(<< >>)>>],
     [op |-> "Join", args |-> <<LTable(1), LString(<<32>>)>>],
     [op |-> "IndexFunc", args |-> <<LString(<<32, 97>>), LFunction("failAtA")>>],
     [op |-> "IndexFunc", args |-> <<LString(<<32, 97>>), LFunction("isA")>>],
     [op |-> "IndexFunc", args |-> <<LString(<<32, 97>>), LFunction("nilAtA")>>],
     [op |-> "FieldsFunc", args |-> <<LString(<<97, 32, 97>>), LFunction("isSpace")>>],
     [op |-> "FieldsFunc", args |-> <<LString(<<32, 32, 97>>), LFunction("failAfterSpace")>>],
     [op |-> "Map", args |-> <<LFunction("failMapAtA"), LString(<<32, 97>>)>>],
     [op |-> "Map", args |-> <<LFunction("upper"), LString(<<32, 97>>)>>]}
        \cup {[op |-> "Repeat", args |-> <<LString(s), LNumber(n)>>] :
                  s \in {<< >>, <<97>>, <<97, 32>>}, n \in Counts}

CallGuarded ==
    /\ pc = "idle"
    /\ held.set
    /\ Len(caught.failed) < MaxFailed
    /\ \E c \in Guarded : CallOp(c.op, c.args)

\* the heap once the script has dropped every value above stk: the tables
\* made after the last one it still holds are collected
Collect(hp, stk) ==
    LET live == TablesIn(stk) \cup {Len(ScriptHeap)}
    IN  Take(hp, CHOOSE id \in live : \A other \in live : id >= other)

\* the protected call has returned, with the result or with the error; the
\* script drops it and goes on with what it kept
Resume ==
    /\ pc \in {"ret", "err"}
    /\ frames = << >>
    /\ held.set
    /\ pc' = "idle"
    /\ stack' = Take(stack, call.base)
    /\ heap' = Collect(heap, Take(stack, call.base))
    /\ caught' = [now |-> << >>,
                  failed |-> IF pc = "err" THEN Append(caught.failed, fault.kind) ELSE caught.failed]
    /\ call' = NoCall
    /\ trace' = << >>
    /\ hostCalls' = 0
    /\ fault' = NoFault
    /\ raised' = FALSE
    /\ UNCHANGED <<scan, held, states, registry, cur, memo, frames>>

NextProtected ==
    \/ CallFirst
    \/ Keep
    \/ CallGuarded
    \/ Resume
    \/ CallChained
    \/ CallAgain
    \/ Callback
    \/ HostReturn
    \/ Unwind
    \/ Discard

SpecProtected == Init /\ [][NextProtected]_vars

(***************************************************************************)
(* A host program with two execution states that have loaded the module.   *)
(* It runs calls of their scripts one after the other, notes one call and  *)
(* its outcome, and later makes the same calls again, in the same state or *)
(* in the other, with calls that return and calls that fail in between.    *)
(***************************************************************************)
\* the arguments the host program passes for a check of the kind
Sample(kind) ==
    CASE kind = "string" -> {LString(<<97, 32, 97>>), LString(<<32>>)}
      [] kind = "int" -> {LNumber(2), LNumber(-1)}
      [] kind = "list" -> {LTable(1)}

SampleArgs(kinds) ==
    CASE Len(kinds) = 1 -> {<<a>> : a \in Sample(kinds[1])}
      [] Len(kinds) = 2 -> {<<a, b>> : a \in Sample(kinds[1]), b \in Sample(kinds[2])}
      [] Len(kinds) = 3 ->
            {<<a, b, c>> : a \in Sample(kinds[1]), b \in Sample(kinds[2]), c \in Sample(kinds[3])}
      [] Len(kinds) = 4 ->
            {<<a, b, c, d>> : a \in Sample(kinds[1]), b \in Sample(kinds[2]),
                              c \in Sample(kinds[3]), d \in Sample(kinds[4])}

\* the script of the current state calls an operation without callback
\* through its module table
CallSample ==
    /\ Idle
    /\ \E name \in Names \ ScanOps :
         /\ states[cur].module[name].t = "function"
         /\ \E a \in SampleArgs(stringsFuncs[name].args) : CallOp(states[cur].module[name].v, a)

\* a call that takes a callback, or fails, made in between
CallBetween ==
    /\ Idle
    /\ \E c \in Guarded : CallOp(c.op, c.args)

\* the values as the script sees into them
Contents(values, hp) == [i \in 1..Len(values) |-> Content(values[i], hp)]

\* the host program notes the call that has ended and its outcome: the
\* value returned or the fault
Remember ==
    /\ pc \in {"ret", "err"}
    /\ frames = << >>
    /\ ~memo.set
    /\ call.op \notin ScanOps
    /\ memo' = [set |-> TRUE, state |-> cur, op |-> call.op, args |-> Contents(call.args, heap),
                out |-> IF pc = "ret" THEN Content(stack[Len(stack)], heap)
                        ELSE [t |-> "error", v |-> fault]]
    /\ UNCHANGED <<stack, pc, call, scan, trace, hostCalls, fault, raised, held, heap, states, registry,
                   caught, cur, frames>>

\* the host program goes on with the script of another state
Switch ==
    /\ Idle
    /\ \E l \in States \ {cur} :
         /\ states[l].loaded
         /\ cur' = l
    /\ UNCHANGED <<stack, pc, call, scan, trace, hostCalls, fault, raised, held, heap, states, registry,
                   caught, memo, frames>>

NextMemo ==
    \/ CallSample
    \/ CallBetween
    \/ Remember
    \/ Switch
    \/ Callback
    \/ HostReturn
    \/ Unwind
    \/ Discard

SpecMemo == Init /\ [][NextMemo]_vars

(***************************************************************************)
(* Reentrancy: a script whose callbacks call the module themselves.  The   *)
(* call that waits for its callback is put aside in frames; the nested     *)
(* call runs on the same value stack, above the closure and its argument.  *)
(***************************************************************************)
\* the operation call the closure f makes when it is invoked with r
NestedCall(f, r) ==
    CASE f = "viaContainsRune" -> [op |-> "ContainsRune", args |-> <<LString(<<97>>), LNumber(r)>>]
      [] f = "viaIndexFunc" -> [op |-> "IndexFunc", args |-> <<LString(<<r>>), LFunction("isSpace")>>]
      [] f = "viaFailing" -> [op |-> "IndexFunc", args |-> <<LString(<<r>>), LFunction("failAtA")>>]
      [] f = "viaVia" -> [op |-> "IndexFunc", args |-> <<LString(<<r>>), LFunction("viaContainsRune")>>]
      [] f = "dropAVia" -> [op |-> "IndexFunc", args |-> <<LString(<<r>>), LFunction("isA")>>]

\* what the closure f returns once its nested call has returned res, as the
\* closure without a call that returns the same
Settled(f, res) ==
    CASE f = "viaContainsRune" -> IF res = LBool(TRUE) THEN "always" ELSE "never"
      [] f \in {"viaIndexFunc", "viaFailing", "viaVia"} -> IF res = LNumber(0) THEN "always" ELSE "never"
      [] f = "dropAVia" -> IF res = LNumber(0) THEN "drop" ELSE "identity"

\* a closure that leaves its nested call's function, arguments and result
\* on the stack when it returns
CloseNestedLeak(stk, depth) == stk

\* the closure returns or fails: what was pushed above the depth at which
\* the trampoline called it is dropped
CloseNested(stk, depth) == Take(stk, depth)

NestTexts == SeqsUpTo({97, 32}, MaxLen)

\* the script calls an operation with a closure that calls the module
CallNesting ==
    /\ Idle
    /\ \E name \in ScanOps, s \in NestTexts, f \in Nesting :
         CallOp(name, IF name = "Map" THEN <<LFunction(f), LString(s)>> ELSE <<LString(s), LFunction(f)>>)

\* the trampoline pushes the closure and the code point and calls it; the
\* closure calls an operation of the module, whose handler runs up to its
\* own first callback invocation
Enter ==
    /\ pc = "host"
    /\ scan.pos > 0
    /\ scan.fn.v \in Nesting
    /\ LET r == scan.s[scan.pos]
           c == NestedCall(scan.fn.v, r)
       IN  /\ frames' = Append(frames, [call |-> call, scan |-> scan, hostCalls |-> hostCalls,
                                         trace |-> Append(trace, [pos |-> scan.pos, r |-> r])])
           /\ Invoke(stack \o <<scan.fn, LNumber(r)>>, c.op, c.args)

\* the nested call has returned or failed: the closure returns its answer,
\* or its error, to the trampoline of the call that waited, which goes on
\* as after any invocation
Leave ==
    /\ pc \in {"ret", "panic"}
    /\ frames # << >>
    /\ LET outer == frames[Len(frames)]
           r == outer.scan.s[outer.scan.pos]
           answer == IF pc = "panic" THEN "raise" ELSE Settled(outer.scan.fn.v, stack[Len(stack)])
           stk == CloseNested(stack, outer.call.base + 1 + Len(outer.call.args))
           t == IF outer.scan.host = "Map"
                THEN callFunc_Rune_ret_Rune(stk, outer.call.base + 1, LFunction(answer), LNumber(r))
                ELSE callFunc_Rune_ret_Bool(stk, outer.call.base + 1, LFunction(answer), LNumber(r))
       IN  /\ frames' = Take(frames, Len(frames) - 1)
           /\ call' = outer.call
           /\ trace' = outer.trace
           /\ hostCalls' = outer.hostCalls
           /\ raised' = (pc = "panic")
           /\ stack' = t.stack
           /\ IF t.fault # ""
              THEN /\ pc' = "panic"
                   /\ fault' = [kind |-> t.fault, arg |-> 0]
                   /\ scan' = NoScan
              ELSE /\ pc' = "host"
                   /\ fault' = NoFault
                   /\ scan' = scanStep(outer.scan, t.ret)
    /\ UNCHANGED <<held, heap, states, registry, caught, cur, memo>>

NextNested ==
    \/ CallNesting
    \/ Enter
    \/ Leave
    \/ Callback
    \/ HostReturn
    \/ Unwind
    \/ Discard

SpecNested == Init /\ [][NextNested]_vars

(***************************************************************************)
(* What the claims speak of.                                               *)
(***************************************************************************)
\* the value the call returned, when pc = "ret"
Result == stack[Len(stack)]

Arity(name) == Len(stringsFuncs[name].args)

\* the kind of dynamic value each check is documented to expect
Expected(kind) ==
    CASE kind = "string" -> "string"
      [] kind = "int" -> "number"
      [] kind = "function" -> "function"
      [] kind = "list" -> "table"

\* the call has exactly the arguments of the documented kinds
StrictlyTyped(c) ==
    /\ Len(c.args) = Arity(c.op)
    /\ \A i \in 1..Len(c.args) : c.args[i].t = Expected(stringsFuncs[c.op].args[i])

\* the strings a value holds: the elements of a table, in key order
Elems(lv) == IF lv.t = "table" THEN heap[lv.v] ELSE << >>

\* the value is a table that holds exactly the strings vs at the keys 1..Len
IsList(lv, vs) == lv.t = "table" /\ Elems(lv) = [i \in 1..Len(vs) |-> LString(vs[i])]

\* the host routine of the same name on the script's arguments, in the
\* script's order, and its result as a dynamic value (for a list, as the
\* strings the returned table is to hold)
HostRoutine(name, a) ==
    CASE name = "Compare" -> LNumber(Compare(a[1].v, a[2].v))
      [] name = "Contains" -> LBool(Contains(a[1].v, a[2].v))
      [] name = "ContainsAny" -> LBool(ContainsAny(a[1].v, a[2].v))
      [] name = "Count" -> LNumber(Count(a[1].v, a[2].v))
      [] name = "EqualFold" -> LBool(EqualFold(a[1].v, a[2].v))
      [] name = "HasPrefix" -> LBool(HasPrefix(a[1].v, a[2].v))
      [] name = "HasSuffix" -> LBool(HasSuffix(a[1].v, a[2].v))
      [] name = "Index" -> LNumber(Index(a[1].v, a[2].v))
      [] name = "IndexAny" -> LNumber(IndexAny(a[1].v, a[2].v))
      [] name = "LastIndex" -> LNumber(LastIndex(a[1].v, a[2].v))
      [] name = "LastIndexAny" -> LNumber(LastIndexAny(a[1].v, a[2].v))
      [] name = "Replace" -> LString(Replace(a[1].v, a[2].v, a[3].v, a[4].v))
      [] name = "Split" -> Split(a[1].v, a[2].v)
      [] name = "SplitAfter" -> SplitAfter(a[1].v, a[2].v)
      [] name = "Trim" -> LString(Trim(a[1].v, a[2].v))
      [] name = "TrimLeft" -> LString(TrimLeft(a[1].v, a[2].v))
      [] name = "TrimRight" -> LString(TrimRight(a[1].v, a[2].v))
      [] name = "TrimPrefix" -> LString(TrimPrefix(a[1].v, a[2].v))
      [] name = "TrimSuffix" -> LString(TrimSuffix(a[1].v, a[2].v))
      [] name = "TrimSpace" -> LString(TrimSpace(a[1].v))
      [] name = "ToUpper" -> LString(ToUpper(a[1].v))
      [] name = "ToLower" -> LString(ToLower(a[1].v))

PassthroughOps ==
    {"Compare", "Contains", "ContainsAny", "Count", "EqualFold", "HasPrefix", "HasSuffix", "Index",
     "IndexAny", "LastIndex", "LastIndexAny", "Replace", "Split", "SplitAfter", "Trim", "TrimLeft",
     "TrimRight", "TrimPrefix", "TrimSuffix", "TrimSpace", "ToUpper", "ToLower"}

\* C1: a well-typed call of an operation whose arguments are strings and
\* integers never fails, and returns what the host routine of the same name
\* returns for the same arguments in the same order.
C1_Passthrough ==
    (call.op \in PassthroughOps /\ StrictlyTyped(call)) =>
        /\ pc = "ret"
        /\ hostCalls = 1
        /\ IF stringsFuncs[call.op].ret = "list"
           THEN IsList(Result, HostRoutine(call.op, call.args))
           ELSE Result = HostRoutine(call.op, call.args)

\* a Replace with a negative count has rewritten more than one occurrence
C1_Witness ==
    /\ pc = "ret"
    /\ call.op = "Replace"
    /\ call.args[4].v < 0
    /\ Count(call.args[1].v, call.args[2].v) > 1
    /\ Result.v # call.args[1].v

\* the byte offset of the last code point of s the closure f answers true
\* for, -1 when there is none: Go's strings.LastIndexFunc
LastIndexFuncOf(s, f) ==
    LET hits == {k \in 1..Len(s) : ScriptCall(f, s[k]).val = LBool(TRUE)}
    IN  IF hits = {} THEN -1 ELSE Offset(s, (CHOOSE k \in hits : \A j \in hits : k >= j) - 1)

\* C2: LastIndexFunc(s, pred) returns the byte index of the last code point
\* of s that satisfies pred, -1 when there is none.
C2_LastIndexFunc ==
    (pc = "ret" /\ call.op = "LastIndexFunc" /\ StrictlyTyped(call) /\ call.args[2].v \in Predicates) =>
        Result = LNumber(LastIndexFuncOf(call.args[1].v, call.args[2].v))

\* the table holds strings only, at the keys 1..n
IsStringTable(lv) == lv.t = "table" /\ \A i \in 1..Len(Elems(lv)) : Elems(lv)[i].t = "string"

\* C3: Join(list, sep) on a table of n strings at the keys 1..n returns the n
\* elements in order with sep between each adjacent pair.
C3_Join ==
    (pc = "ret" /\ call.op = "Join" /\ IsStringTable(call.args[1]) /\ call.args[2].t = "string") =>
        Result = LString(Join([i \in 1..Len(Elems(call.args[1])) |-> Elems(call.args[1])[i].v],
                              call.args[2].v))

\* C4: the table returned by Split(s, sep), sep not empty, passed to Join
\* with the same sep, gives s back.
C4_SplitJoin ==
    (/\ pc = "ret"
     /\ call.op = "Join"
     /\ held.set
     /\ held.from.op = "Split"
     /\ StrictlyTyped(held.from)
     /\ held.from.args[2].v # << >>) =>
        Result = held.from.args[1]

\* C5: between the callback invocations of one call, and when an
\* invocation has ended in a fault, the stack is as deep as it was when the
\* handler was entered: the function and the arguments of the call.
C5_StackBalance ==
    (pc \in {"host", "panic"}) => Len(stack) = call.base + 1 + Len(call.args)

\* a scan that ends in a fault on a returned value of the wrong type, after
\* an invocation that returned a valid one
C5_Witness ==
    /\ pc = "panic"
    /\ fault.kind = "CallbackTypeError"
    /\ Len(trace) >= 2

\* C6: once a callback has raised an error the call is a fault: it never
\* returns a value, and the failed call leaves the stack as deep as it was
\* before the call.
C6_CallbackFault ==
    raised =>
        /\ pc \in {"panic", "err"}
        /\ fault.kind = "CallbackFault"
        /\ pc = "err" => Len(stack) = call.base

\* a call failed on an error raised at the third code point scanned
C6_Witness ==
    /\ pc = "err"
    /\ raised
    /\ Len(trace) = 3
    /\ stack = << >>

\* the arguments the handler of c reads: the first Arity of them
Positions(c) == 1..Arity(c.op)

Missing(c, i) == i > Len(c.args)

\* argument i of c is not of the documented kind
WrongKind(c, i) == ~Missing(c, i) /\ c.args[i].t # Expected(stringsFuncs[c.op].args[i])

\* argument i of c is of a kind its check refuses: a number passes for a string
Refused(c, i) ==
    /\ WrongKind(c, i)
    /\ ~(stringsFuncs[c.op].args[i] = "string" /\ c.args[i].t = "number")

ArgumentFault == pc \in {"panic", "err"} /\ fault.kind = "ArgumentTypeError"

\* C7 as stated: a missing argument or an argument of another kind than the
\* documented one makes the call fail with an argument type error before the
\* host routine and any callback is invoked.
C7_Original ==
    (call.op # "" /\ \E i \in Positions(call) : Missing(call, i) \/ WrongKind(call, i)) =>
        (ArgumentFault /\ hostCalls = 0 /\ trace = << >>)

\* C7: a missing argument or an argument of a kind the check refuses makes
\* the call fail with an argument type error, and a call that fails so has
\* invoked no host routine and no callback.
C7_ArgumentTypeError ==
    /\ (call.op # "" /\ \E i \in Positions(call) : Missing(call, i) \/ Refused(call, i)) =>
          ArgumentFault
    /\ ArgumentFault => (hostCalls = 0 /\ trace = << >>)

\* Replace failed on its fourth argument, the first three being strings
C7_Witness ==
    /\ pc = "err"
    /\ call.op = "Replace"
    /\ Len(call.args) = 4
    /\ fault = [kind |-> "ArgumentTypeError", arg |-> 4]
    /\ call.args[4].t = "table"

\* C8 as stated: a call with fewer or more arguments than the operation
\* takes fails with an argument type error.
C8_Original ==
    (call.op # "" /\ Len(call.args) # Arity(call.op)) => (ArgumentFault /\ hostCalls = 0)

\* C8: a call with fewer arguments fails with an argument type error and
\* invokes no host routine; in a call with more arguments the extra ones are
\* not looked at: it fails so exactly when one of the arguments the handler
\* reads is refused.
C8_ArgumentCount ==
    /\ (call.op # "" /\ Len(call.args) < Arity(call.op)) => (ArgumentFault /\ hostCalls = 0)
    /\ (call.op # "" /\ Len(call.args) > Arity(call.op)) =>
          (ArgumentFault <=> \E i \in Positions(call) : Refused(call, i))

\* ToUpper called with two arguments has returned
C8_Witness ==
    /\ pc = "ret"
    /\ call.op = "ToUpper"
    /\ Len(call.args) = 2
    /\ Result = LString(<<65>>)

\* the text of a string argument: a number stands for its decimal form
ArgText(a) == IF a.t = "number" THEN NumberToString(a.v) ELSE a.v

\* the string the call in progress scans
Scanned == IF call.op = "Map" THEN ArgText(call.args[2]) ELSE ArgText(call.args[1])

\* C9 as stated: the positions passed to the callback never decrease.
C9_Original ==
    \A i \in 1..(Len(trace) - 1) : trace[i].pos <= trace[i + 1].pos

LeftToRight(tr) == \A i \in 1..Len(tr) : tr[i].pos = i

RightToLeft(tr, n) == \A i \in 1..Len(tr) : tr[i].pos = n - i + 1

\* C9: the callback is passed code points of the call's own string; for
\* FieldsFunc, IndexFunc, LastIndexFunc, Map and TrimLeftFunc one after the
\* other from the first; for TrimRightFunc one after the other from the
\* last; for TrimFunc from the first up to the first it keeps, then from the
\* last down.  No invocation belongs to a call other than the one in progress.
C9_ScanOrder ==
    /\ call.op = "" => trace = << >>
    /\ trace # << >> =>
          /\ call.op \in ScanOps
          /\ \A i \in 1..Len(trace) :
                trace[i].pos \in 1..Len(Scanned) /\ trace[i].r = Scanned[trace[i].pos]
          /\ call.op \in {"FieldsFunc", "IndexFunc", "LastIndexFunc", "Map", "TrimLeftFunc"} =>
                LeftToRight(trace)
          /\ call.op = "TrimRightFunc" => RightToLeft(trace, Len(Scanned))
          /\ call.op = "TrimFunc" =>
                \E k \in 0..Len(trace) :
                    /\ LeftToRight(Take(trace, k))
                    /\ RightToLeft(Drop(trace, k), Len(Scanned))

\* a TrimFunc that scanned two code points from the left and then two from
\* the right
C9_Witness ==
    /\ pc = "ret"
    /\ call.op = "TrimFunc"
    /\ Len(trace) = 4
    /\ trace[3].pos > trace[4].pos
    /\ trace[4].pos = trace[2].pos

\* what the call of name with args returns, for an operation without callback
Returned(name, args) ==
    LET h == stringsFuncs[name]
        chk == checkArgs(<<GFunction(name)>> \o args, 1, h.args, heap)
    IN  ret(h.ret, hostCall(h.host, chk.v).v, heap).v

\* the result of a host routine's scan with a closure that answers for
\* every code point
RECURSIVE RunScan(_)
RunScan(st) ==
    IF st.pos = 0 THEN st.res
    ELSE RunScan(scanStep(st, ScriptCall(st.fn.v, st.s[st.pos]).val.v))

\* C10: TrimLeft(TrimRight(s, cut), cut) is what Trim(s, cut) returns, and
\* TrimLeftFunc(TrimRightFunc(s, p), p) is what TrimFunc(s, p) returns for a
\* predicate p.
C10_TrimLaw ==
    /\ (pc = "ret" /\ held.set /\ call.op = "TrimLeft" /\ held.from.op = "TrimRight") =>
          Result = Returned("Trim", held.from.args)
    /\ (pc = "ret" /\ held.set /\ call.op = "TrimLeftFunc" /\ held.from.op = "TrimRightFunc"
            /\ held.from.args[2].v \in Predicates) =>
          Result = LString(RunScan(hostScan("TrimFunc", <<ArgText(held.from.args[1]), held.from.args[2]>>)))

\* both ends of the string have been trimmed
C10_Witness ==
    /\ pc = "ret"
    /\ held.set
    /\ call.op = "TrimLeft"
    /\ held.from.args[1].t = "string"
    /\ Len(call.args[1].v) < Len(held.from.args[1].v)
    /\ Len(Result.v) < Len(call.args[1].v)

\* the strings of a table of strings
Strings(lv) == [i \in 1..Len(Elems(lv)) |-> Elems(lv)[i].v]

\* the pieces, put together with sep between them, are s, and each piece
\* but the last ends where sep occurs next
PiecesOf(pieces, s, sep) ==
    /\ Join(pieces, sep) = s
    /\ \A i \in 1..(Len(pieces) - 1) : ~Contains(pieces[i] \o Take(sep, Len(sep) - 1), sep)

\* C11: Split(s, sep), sep not empty, returns a table of strings at the keys
\* 1..k, k the number of non-overlapping occurrences of sep in s plus one:
\* the pieces of s between the occurrences, the empty ones included.
C11_Split ==
    (call.op = "Split" /\ StrictlyTyped(call) /\ call.args[2].v # << >>) =>
        /\ pc = "ret"
        /\ IsStringTable(Result)
        /\ Len(Elems(Result)) = Count(call.args[1].v, call.args[2].v) + 1
        /\ PiecesOf(Strings(Result), call.args[1].v, call.args[2].v)

\* a split with two empty pieces among three
C11_Witness ==
    /\ pc = "ret"
    /\ call.op = "Split"
    /\ call.args[2].v = <<32>>
    /\ Len(Elems(Result)) = 3
    /\ Elems(Result)[1] = LString(<< >>)
    /\ Elems(Result)[2] = LString(<< >>)
    /\ Elems(Result)[3] # LString(<< >>)

\* C12 as stated: SplitN(s, sep, 0) and SplitAfterN(s, sep, 0) hand nil to
\* the script, not a table.
C12_SplitNZero ==
    (/\ pc = "ret"
     /\ call.op \in {"SplitN", "SplitAfterN"}
     /\ StrictlyTyped(call)
     /\ call.args[3].v = 0) =>
        Result = LNil

Min(a, b) == IF a < b THEN a ELSE b

\* C13: for n > 0 and sep not empty, SplitN(s, sep, n) returns at most n
\* pieces, the last the unsplit remainder of s, which joined with sep give
\* s; for n < 0 it returns what Split(s, sep) returns.  SplitAfterN obeys
\* the same bound and the concatenation of its pieces is s.
C13_SplitN ==
    (/\ call.op \in {"SplitN", "SplitAfterN"}
     /\ StrictlyTyped(call)
     /\ call.args[2].v # << >>
     /\ call.args[3].v # 0) =>
        LET s == call.args[1].v
            sep == call.args[2].v
            n == call.args[3].v
            pieces == Strings(Result)
        IN  /\ pc = "ret"
            /\ IsStringTable(Result)
            /\ n > 0 => Len(pieces) = Min(n, Count(s, sep) + 1)
            /\ call.op = "SplitN" =>
                  /\ PiecesOf(pieces, s, sep)
                  /\ n < 0 => pieces = Split(s, sep)
            /\ call.op = "SplitAfterN" =>
                  /\ Join(pieces, << >>) = s
                  /\ \A i \in 1..(Len(pieces) - 1) : HasSuffix(pieces[i], sep)

\* a SplitN that stopped at its bound: the last piece still holds sep
C13_Witness ==
    /\ pc = "ret"
    /\ call.op = "SplitN"
    /\ StrictlyTyped(call)
    /\ call.args[3].v = 2
    /\ call.args[2].v # << >>
    /\ Len(Elems(Result)) = 2
    /\ Contains(Elems(Result)[2].v, call.args[2].v)

\* new put in at the first k of the places before each code point of s and
\* after the last
RECURSIVE InsertFirst(_, _, _)
InsertFirst(s, new, k) ==
    IF k = 0 THEN s
    ELSE IF s = << >> THEN new
    ELSE new \o <<Head(s)>> \o InsertFirst(Tail(s), new, k - 1)

\* s with its first k occurrences of old replaced by new: s cut at these
\* occurrences and put together again with new in their place
ReplaceFirst(s, old, new, k) ==
    IF old = << >> THEN InsertFirst(s, new, k) ELSE Join(SplitN(s, old, k + 1), new)

\* C14: Replace(s, old, new, n) returns s with its first n non-overlapping
\* occurrences of old replaced by new for n > 0, with every occurrence
\* replaced for any n < 0, and s for n = 0.
C14_Replace ==
    (call.op = "Replace" /\ StrictlyTyped(call)) =>
        LET s == call.args[1].v
            old == call.args[2].v
            new == call.args[3].v
            n == call.args[4].v
            all == Count(s, old)
        IN  /\ pc = "ret"
            /\ Result = LString(ReplaceFirst(s, old, new, IF n < 0 THEN all ELSE Min(n, all)))

\* a count of -2 has replaced two occurrences
C14_Witness ==
    /\ pc = "ret"
    /\ call.op = "Replace"
    /\ call.args[4].v = -2
    /\ call.args[2].v # << >>
    /\ Count(call.args[1].v, call.args[2].v) = 2
    /\ Result # call.args[1]

\* the places (from 0) of the bytes of s that are b modulo 256
PlacesOf(s, b) == {k \in 0..(ByteLen(s) - 1) : (Bytes(s)[k + 1] - b) % 256 = 0}

\* C15: IndexByte(s, b) and LastIndexByte(s, b) take any integer b without
\* error and return the first and the last place of the byte b modulo 256
\* in s, -1 when it has none: b = 256 finds the byte 0, b = -1 the byte 255,
\* b + 256 what b finds.
C15_ByteModulo ==
    (call.op \in {"IndexByte", "LastIndexByte"} /\ StrictlyTyped(call)) =>
        LET places == PlacesOf(call.args[1].v, call.args[2].v)
        IN  /\ pc = "ret"
            /\ Result.t = "number"
            /\ places = {} => Result.v = -1
            /\ places # {} =>
                  /\ Result.v \in places
                  /\ call.op = "IndexByte" => \A k \in places : Result.v <= k
                  /\ call.op = "LastIndexByte" => \A k \in places : Result.v >= k

\* 451 = 195 + 256 has found the first byte of the code point 233 behind
\* another code point
C15_Witness ==
    /\ pc = "ret"
    /\ call.op = "IndexByte"
    /\ call.args[2].v = 451
    /\ Result = LNumber(1)

\* C16: Preload registers the loader and builds no module table; the
\* Loader runs when a script first requires the module, never before and
\* never again; an execution state Preload was not called on does not get
\* the module by require; a state that has the module keeps it, and its
\* later require calls are answered with it.
C16_LoadOrder ==
    \A l \in States :
        LET st == states[l]
        IN  /\ st.loaderRuns <= 1
            /\ st.loaded <=> st.loaderRuns = 1
            /\ st.loaded => (st.preload /\ st.requires >= 1 /\ st.last = "module")
            /\ ~st.loaded => st.module = EmptyModule
            /\ ~st.preload => (~st.loaded /\ st.last # "module")
            /\ (st.requires >= 1 /\ ~st.loaded) => st.last = "error"

\* one state has answered its second require with the module its Loader
\* built once; the other, never given the loader, has failed to require it
C16_Witness ==
    /\ states[1].requires = 2
    /\ states[1].loaderRuns = 1
    /\ states[1].last = "module"
    /\ ~states[2].preload
    /\ states[2].requires >= 1
    /\ states[2].last = "error"

\* every name bound to its own handler
FullModule == [n \in Names |-> GFunction(n)]

\* C17: the map from names to handlers is never changed: not by a Loader
\* call, an operation call that returns or fails, or a script's write to
\* its module table; so every module table a Loader builds holds every
\* name bound to its original handler.
C17_RegistryFixed ==
    [][/\ registry' = [n \in Names |-> n]
       /\ \A l \in States :
             states'[l].loaderRuns > states[l].loaderRuns => states'[l].module = FullModule]_vars

\* one state's script has unset ToUpper in its module table and had a call
\* fail; the other state's Loader has built a full table
C17_Witness ==
    /\ states[1].loaded
    /\ states[1].module["ToUpper"] = LNil
    /\ pc = "err"
    /\ states[2].loaderRuns = 1
    /\ states[2].module = FullModule

\* C18: no call changes a table that exists: after Join returns or fails its
\* list has the keys and the values it had; and the table a call returns is
\* a new one, not one passed in nor one returned by an earlier call.
C18_NoInPlace ==
    [][/\ \A id \in 1..Min(Len(heap), Len(heap')) : heap'[id] = heap[id]
       /\ (pc' = "ret" /\ pc # "ret" /\ stringsFuncs[call'.op].ret = "list") =>
             /\ Result'.t = "table"
             /\ Result'.v \notin 1..Len(heap)
             /\ Result'.v \notin TablesIn(call'.args) \cup TablesIn(stack)]_vars

\* a second Split has returned, in another table, what the table the script
\* still holds from the first one has
C18_Witness ==
    /\ pc = "ret"
    /\ call.op = "Split"
    /\ held.set
    /\ Len(stack) = 2
    /\ stack[1].v # stack[2].v
    /\ Elems(stack[1]) = Elems(stack[2])
    /\ Len(Elems(stack[1])) > 1

\* what the host routine of the name gives for the predicate that answers c
\* for every code point: a number, a string, or the strings of a list
ConstantResult(name, s, c) ==
    CASE name = "FieldsFunc" -> IF c \/ s = << >> THEN << >> ELSE <<s>>
      [] name = "IndexFunc" -> IF c /\ s # << >> THEN 0 ELSE -1
      [] name = "LastIndexFunc" -> IF c /\ s # << >> THEN Offset(s, Len(s) - 1) ELSE -1
      [] name \in {"TrimFunc", "TrimLeftFunc", "TrimRightFunc"} -> IF c THEN << >> ELSE s

\* C19: with a predicate that answers the same for every code point, each
\* operation driven by a predicate returns what its host routine gives for
\* the constant predicate.
C19_ConstantPredicate ==
    (/\ pc = "ret"
     /\ call.op \in NamesOf(SF)
     /\ StrictlyTyped(call)
     /\ call.args[2].v \in {"always", "never"}) =>
        LET expected == ConstantResult(call.op, call.args[1].v, call.args[2].v = "always")
        IN  CASE stringsFuncs[call.op].ret = "list" -> IsList(Result, expected)
              [] stringsFuncs[call.op].ret = "int" -> Result = LNumber(expected)
              [] stringsFuncs[call.op].ret = "string" -> Result = LString(expected)

\* the sum of the encoded lengths of the code points of s
RECURSIVE EncodedLength(_)
EncodedLength(s) == IF s = << >> THEN 0 ELSE Len(EncodeRune(Head(s))) + EncodedLength(Tail(s))

\* C20: IndexFunc(s, pred) returns the number of bytes before the first
\* code point of s that pred answers true for, -1 when there is none.
C20_IndexFunc ==
    (/\ pc = "ret"
     /\ call.op = "IndexFunc"
     /\ StrictlyTyped(call)
     /\ call.args[2].v \in Predicates) =>
        LET s == call.args[1].v
            hits == {k \in 1..Len(s) : ScriptCall(call.args[2].v, s[k]).val = LBool(TRUE)}
        IN  /\ hits = {} => Result = LNumber(-1)
            /\ hits # {} =>
                  \E k \in hits :
                      /\ \A j \in hits : k <= j
                      /\ Result = LNumber(EncodedLength(Take(s, k - 1)))

\* the match is the third code point, behind two of two bytes each
C20_Witness ==
    /\ pc = "ret"
    /\ call.op = "IndexFunc"
    /\ call.args = <<LString(<<233, 233, 97>>), LFunction("isA")>>
    /\ Result = LNumber(4)
    /\ Len(trace) = 3

\* what the call of name with args returns when it is made on an empty
\* stack and returns, as the script sees into it
Outcome(name, args) ==
    LET h == stringsFuncs[name]
        chk == checkArgs(<<GFunction(name)>> \o args, 1, h.args, heap)
        v == IF h.host \in ScanHosts THEN RunScan(hostScan(h.host, chk.v)) ELSE hostCall(h.host, chk.v).v
        pushed == ret(h.ret, v, heap)
    IN  Content(pushed.v, pushed.heap)

\* C21: a failed call hands exactly one error, its own fault, to the
\* protected call around it and leaves the stack as deep as it was before
\* the call; the registry, the module tables and the result the script kept
\* earlier stay as they were; and a call that returns after failed calls
\* returns what the same call returns when made first.
C21_FaultContainment ==
    /\ pc = "err" => (caught.now = <<fault>> /\ fault.kind # "" /\ Len(stack) = call.base)
    /\ pc # "err" => caught.now = << >>
    /\ registry = [n \in Names |-> n]
    /\ \A l \in States : states[l].module = FullModule
    /\ held.set =>
          /\ Len(stack) >= 1
          /\ Content(stack[1], heap) = Outcome(held.from.op, held.from.args)
    /\ (pc = "ret" /\ caught.failed # << >>) => Content(Result, heap) = Outcome(call.op, call.args)

\* after a call that failed on an argument and one that failed in a
\* callback, the table the script kept from Split has gone through Join
C21_Witness ==
    /\ pc = "ret"
    /\ call.op = "Join"
    /\ held.set
    /\ held.from.op = "Split"
    /\ caught.failed = <<"ArgumentTypeError", "CallbackFault">>
    /\ Len(stack) = 2
    /\ Len(Elems(stack[1])) = 2

\* the closure the call in progress was given
Handle == IF call.op = "Map" THEN call.args[1] ELSE call.args[2]

\* the invocation of the closure lf for the code point r ends in a fault:
\* the closure raises an error, or returns a value of another type than the
\* operation reads
Faults(op, lf, r) ==
    LET out == ScriptCall(lf.v, r)
    IN  out.err \/ out.val.t # (IF op = "Map" THEN "number" ELSE "boolean")

\* C22: an invocation that ended in a fault is the last of its call: the
\* callback is not invoked again, the call does not return, and what the
\* host routine had built from the code points before the fault is gone,
\* no string and no table of it is handed to the script.
C22_NoRetry ==
    trace # << >> =>
        /\ \A i \in 1..(Len(trace) - 1) : ~Faults(call.op, Handle, trace[i].r)
        /\ Faults(call.op, Handle, trace[Len(trace)].r) =>
              /\ pc \in {"panic", "err"}
              /\ scan = NoScan
              /\ pc = "err" => Len(stack) = call.base
              /\ call.op = "FieldsFunc" => Len(heap) = Len(ScriptHeap)

\* Map has failed at the second of three code points, the first mapped
C22_Witness ==
    /\ pc = "err"
    /\ call.op = "Map"
    /\ Len(call.args) = 2
    /\ call.args[2] = LString(<<32, 97, 32>>)
    /\ fault.kind = "CallbackFault"
    /\ Len(trace) = 2
    /\ stack = << >>

\* how the call in progress has ended: the value returned, as the script
\* sees into it, or the fault
Ended == IF pc = "ret" THEN Content(Result, heap) ELSE [t |-> "error", v |-> fault]

\* C23: a call of an operation without callback that has the operation and
\* the arguments of a call noted earlier ends as that call ended, with an
\* equal value (a table with equal values at equal keys) or the same fault,
\* whatever calls returned or failed in between and whether the two are
\* made in one execution state or in two.
C23_Stateless ==
    (/\ memo.set
     /\ pc \in {"ret", "err"}
     /\ call.op = memo.op
     /\ Contents(call.args, heap) = memo.args) =>
        Ended = memo.out

\* a Split has returned in the second state, in another table, the pieces
\* it returned in the first
C23_Witness ==
    /\ memo.set
    /\ memo.state = 1
    /\ cur = 2
    /\ pc = "ret"
    /\ call.op = "Split"
    /\ memo.op = "Split"
    /\ call.args = memo.args
    /\ Len(Elems(Result)) = 2
    /\ Content(Result, heap) = memo.out

\* the text of a table element: a string as it is, another value as it prints
TextOf(item) == IF item.t = "string" THEN item.v ELSE LVString(item)

\* the strings read from a table whose keys 1..n hold the values tb: "nil"
\* for the key 0, which it does not have, then the values at the keys
\* 1..n-1
Converted(tb) == [k \in 1..Len(tb) |-> IF k = 1 THEN <<110, 105, 108>> ELSE TextOf(tb[k - 1])]

Plain(f) ==
    CASE f = "viaContainsRune" -> "isA"
      [] f = "viaIndexFunc" -> "isSpace"
      [] f = "viaFailing" -> "failAtA"
      [] f = "viaVia" -> "isA"
      [] f = "dropAVia" -> "dropA"

\* the host routine's scan with a closure that makes no call, to its result
\* or to the fault of an invocation; calls counts the invocations
RECURSIVE RunPlain(_, _)
RunPlain(st, calls) ==
    IF st.pos = 0 THEN [fault |-> "", res |-> st.res, calls |-> calls]
    ELSE LET arg == LNumber(st.s[st.pos])
             t == IF st.host = "Map" THEN callFunc_Rune_ret_Rune(<< >>, 0, st.fn, arg)
                  ELSE callFunc_Rune_ret_Bool(<< >>, 0, st.fn, arg)
         IN  IF t.fault # "" THEN [fault |-> t.fault, res |-> << >>, calls |-> calls + 1]
             ELSE RunPlain(scanStep(st, t.ret), calls + 1)

\* the call that runs above the waiting call number i
Above(i) == IF i < Len(frames) THEN frames[i + 1].call ELSE call

\* C25: a callback may call the module.  The stack is balanced at every
\* level: each call runs above the closure and the code point its waiting
\* call pushed, and leaves one value when it returns.  The call that waits
\* does not go on before the nested one has ended: its scan stays at the
\* code point it asked about.  And it ends as it ends with a closure that
\* gives the same answers without a nested call: the same result, after as
\* many invocations, or the same fault.
C25_Reentrancy ==
    /\ pc = "ret" => Len(stack) = call.base + 1
    /\ pc \in {"host", "panic"} => Len(stack) = call.base + 1 + Len(call.args)
    /\ pc = "err" => Len(stack) = call.base
    /\ \A i \in 1..Len(frames) :
          LET fr == frames[i]
          IN  /\ Above(i).base = fr.call.base + 1 + Len(fr.call.args) + 2
              /\ fr.scan.pos > 0
              /\ fr.trace[Len(fr.trace)].pos = fr.scan.pos
              /\ Above(i).op = NestedCall(fr.scan.fn.v, fr.scan.s[fr.scan.pos]).op
              /\ Above(i).args = NestedCall(fr.scan.fn.v, fr.scan.s[fr.scan.pos]).args
    /\ (frames = << >> /\ pc \in {"ret", "err"} /\ call.op \in ScanOps /\ Handle.v \in Nesting) =>
          LET h == stringsFuncs[call.op]
              fn == LFunction(Plain(Handle.v))
              plain == RunPlain(hostScan(h.host, IF call.op = "Map" THEN <<fn, Scanned>> ELSE <<Scanned, fn>>), 0)
              pushed == ret(h.ret, plain.res, heap)
          IN  /\ pc = "ret" <=> plain.fault = ""
              /\ Len(trace) = plain.calls
              /\ pc = "ret" => Content(Result, heap) = Content(pushed.v, pushed.heap)
              /\ pc = "err" => fault.kind = plain.fault

\* FieldsFunc has cut "a a" in two with a predicate that called IndexFunc,
\* with a callback of its own, for each of the three code points
C25_Witness ==
    /\ pc = "ret"
    /\ frames = << >>
    /\ call.op = "FieldsFunc"
    /\ call.args = <<LString(<<97, 32, 97>>), LFunction("viaIndexFunc")>>
    /\ Len(trace) = 3
    /\ Len(Elems(Result)) = 2

\* C26: a callback is invoked only while the call it was passed to is in
\* progress, and it is that call's own closure; once the call has returned
\* or failed the binding holds no closure; and a handler reads no table but
\* one among the arguments of its own call, when that call starts, so no
\* later call reads the table of an earlier one.
C26_CallScoped ==
    [][/\ (trace' # trace /\ trace' # << >>) =>
             /\ pc = "host"
             /\ call' = call
             /\ Len(trace') = Len(trace) + 1
             /\ scan.fn = Handle
       /\ pc' # "host" => scan' = NoScan
       /\ call'.reads \subseteq TablesIn(call'.args)
       /\ call'.reads # call.reads => (pc = "idle" \/ call' = NoCall)]_vars

\* the closure of a TrimRightFunc that has returned is invoked by the
\* TrimLeftFunc the script calls next with it
C26_Witness ==
    /\ pc = "host"
    /\ call.op = "TrimLeftFunc"
    /\ held.set
    /\ held.from.op = "TrimRightFunc"
    /\ Len(held.from.args) = 2
    /\ call.args[2] = held.from.args[2]
    /\ Len(trace) = 2

\* the code points of rs that are not negative, in order
RECURSIVE NonNegative(_)
NonNegative(rs) ==
    IF rs = << >> THEN << >>
    ELSE IF Head(rs) < 0 THEN NonNegative(Tail(rs))
    ELSE <<Head(rs)>> \o NonNegative(Tail(rs))

\* C27: Map(fn, s), the function first, invokes fn once for each code point
\* of s, in order, and returns the string of the code points fn returned,
\* those for which it returned a negative number left out; with the
\* identity it returns s, and for the empty string it returns the empty
\* string and invokes nothing.
C27_Map ==
    (/\ call.op = "Map"
     /\ StrictlyTyped(call)
     /\ call.args[1].v \in Mappings) =>
        LET f == call.args[1].v
            s == call.args[2].v
        IN  /\ pc \in {"host", "ret"}
            /\ pc = "ret" =>
                  /\ trace = [i \in 1..Len(s) |-> [pos |-> i, r |-> s[i]]]
                  /\ Result = LString(NonNegative([i \in 1..Len(s) |-> ScriptCall(f, s[i]).val.v]))
                  /\ f = "identity" => Result = call.args[2]
                  /\ s = << >> => (trace = << >> /\ Result = LString(<< >>))

\* of the three code points of "a a" the two for which fn returned -1 are
\* left out
C27_Witness ==
    /\ pc = "ret"
    /\ call.op = "Map"
    /\ call.args = <<LFunction("dropA"), LString(<<97, 32, 97>>)>>
    /\ Len(trace) = 3
    /\ Result = LString(<<32>>)

\* the closure lf returns for the code point r, without error, a value of
\* another type than the operation reads
WrongType(op, lf, r) ==
    LET out == ScriptCall(lf.v, r)
    IN  ~out.err /\ out.val.t # (IF op = "Map" THEN "number" ELSE "boolean")

\* C28: when a callback returns, without error, a value of the wrong type
\* (a predicate nil, a number or a string; a mapping function nil or a
\* string), the call fails with an error on that value: the value is not
\* taken for true, false or a code point, no further code point is scanned,
\* and the value is off the stack.
C28_WrongReturnType ==
    trace # << >> =>
        /\ \A i \in 1..(Len(trace) - 1) : ~WrongType(call.op, Handle, trace[i].r)
        /\ WrongType(call.op, Handle, trace[Len(trace)].r) =>
              /\ pc \in {"panic", "err"}
              /\ fault.kind = "CallbackTypeError"
              /\ ~raised
              /\ pc = "panic" => Len(stack) = call.base + 1 + Len(call.args)
              /\ pc = "err" => Len(stack) = call.base

\* a predicate has returned a number for the second code point, and the
\* IndexFunc call has failed
C28_Witness ==
    /\ pc = "err"
    /\ call.op = "IndexFunc"
    /\ call.args = <<LString(<<233, 97, 97>>), LFunction("numAtA")>>
    /\ fault.kind = "CallbackTypeError"
    /\ Len(trace) = 2
    /\ stack = << >>

\* the type of the value a handler of the kind pushes
Pushed(kind) ==
    CASE kind = "bool" -> "boolean"
      [] kind = "int" -> "number"
      [] kind = "string" -> "string"
      [] kind = "list" -> "table"

\* the strings the host routine of the call that has returned gave
HostList(c) ==
    LET h == stringsFuncs[c.op]
        chk == checkArgs(<<GFunction(c.op)>> \o c.args, 1, h.args, heap)
    IN  IF h.host \in ScanHosts THEN RunScan(hostScan(h.host, chk.v)) ELSE hostCall(h.host, chk.v).v

Times(s, n) == [i \in 1..(n * Len(s)) |-> s[((i - 1) % Len(s)) + 1]]

\* C30: Repeat(s, n) returns s written n times for n >= 0, the empty string
\* for n = 0; for n < 0 the host routine is entered with n as it is and
\* panics: the call returns no string, the fault reaches the protected call
\* as one error and unwinds this call only; what the script kept is as it
\* was, and the calls that return after it return what they return when
\* made first.
C30_Repeat ==
    /\ (call.op = "Repeat" /\ StrictlyTyped(call)) =>
          LET s == call.args[1].v
              n == call.args[2].v
          IN  /\ n >= 0 => (pc = "ret" /\ Result = LString(Times(s, n)))
              /\ n < 0 =>
                    /\ pc \in {"panic", "err"}
                    /\ fault.kind = "HostPanic"
                    /\ hostCalls = 1
                    /\ pc = "err" => (Len(stack) = call.base /\ caught.now = <<fault>>)
    /\ (\E i \in 1..Len(caught.failed) : caught.failed[i] = "HostPanic") =>
          /\ held.set
          /\ Content(stack[1], heap) = Outcome(held.from.op, held.from.args)
          /\ pc = "ret" => Content(Result, heap) = Outcome(call.op, call.args)

\* a Repeat has returned "a a " after a Repeat with the count -2 had failed
C30_Witness ==
    /\ pc = "ret"
    /\ call.op = "Repeat"
    /\ call.args = <<LString(<<97, 32>>), LNumber(2)>>
    /\ Result = LString(<<97, 32, 97, 32>>)
    /\ caught.failed = <<"HostPanic">>
    /\ held.set

=============================================================================
